---- MODULE Spec2Model ----
(***************************************************************************)
(* Model of the Synapse delivery agent: the reasoning ledger               *)
(* (src/src/agent/reasoning.py), the tool contract (src/src/tools/base.py),*)
(* the tool registry (src/src/tools/registry.py) and the orchestration     *)
(* workflow of the coordinator (src/src/agent/coordinator.py).             *)
(*                                                                         *)
(* Confidence values are fixed-point numbers in hundredths: 0.85 is 85.    *)
(***************************************************************************)
EXTENDS Integers, Sequences, FiniteSets, TLC

VARIABLES
    reasoner,   \* the process-wide ChainOfThoughtReasoner (global_reasoner)
    owner,      \* ghost: for each step of reasoner.reasoning_steps, the caller that appended it
    now,        \* the wall clock, in whole seconds (datetime.now())
    pc,         \* per run: the position of resolve_scenario / the workflow
    state,      \* per run: the AgentState of the run
    result,     \* per run: <<>> or <<the ResolutionResult returned>>
    last_node,  \* ghost, per run: the workflow node that ran last
    spy,        \* tool boundary: the last safe_execute call and what it did
    registry,   \* tool_registry._tools: tool name -> the instance registered under it
    coordinator,\* the _coordinator singleton: <<>> or <<its fields>>
    probe       \* the last call of a pure function under test and what it returned

vars == <<reasoner, owner, now, pc, state, result, last_node, spy,
          registry, coordinator, probe>>

ledgerVars == <<reasoner, owner>>
runVars == <<pc, state, result, last_node>>
envVars == <<registry, coordinator, probe>>

-----------------------------------------------------------------------------
(* Bounds of the model *)

MaxSteps == 3        \* ledger length explored by the ledger specification
MaxClock == 1        \* last clock second explored by the ledger specification
MaxIter == 2         \* largest max_iterations a caller passes
MaxTextLen == 5      \* longest response text handed to the confidence extraction

-----------------------------------------------------------------------------
(* Reasoning ledger: src/src/agent/reasoning.py *)

ReasoningStepType ==
    {"analysis", "planning", "tool_selection", "execution", "synthesis",
     "verification", "decision"}

\* ChainOfThoughtReasoner.__init__ at clock second t
NewReasoner(t) ==
    [reasoning_steps |-> <<>>, current_step |-> 0, reasoning_session_id |-> t]

\* the context of a step, reduced to the tool it names: <<>> or <<tool_name>>
NoContext == <<>>

add_reasoning_step_InsertFirst(L, step_type, context, confidence) ==
    [L EXCEPT !.current_step = @ + 1,
              !.reasoning_steps =
                  <<[step_number |-> L.current_step + 1,
                     step_type |-> step_type,
                     context |-> context,
                     confidence |-> confidence]>> \o @]

add_reasoning_step_NoIncrement(L, step_type, context, confidence) ==
    [L EXCEPT !.reasoning_steps =
        Append(@, [step_number |-> L.current_step,
                   step_type |-> step_type,
                   context |-> context,
                   confidence |-> confidence])]

\* add_reasoning_step: bump the counter, append a step carrying it
add_reasoning_step(L, step_type, context, confidence) ==
    [L EXCEPT !.current_step = @ + 1,
              !.reasoning_steps =
                  Append(@, [step_number |-> L.current_step + 1,
                             step_type |-> step_type,
                             context |-> context,
                             confidence |-> confidence])]

analyze_scenario(L) == add_reasoning_step(L, "analysis", NoContext, 90)

plan_tool_usage(L) == add_reasoning_step(L, "planning", NoContext, 85)

select_tool(L) == add_reasoning_step(L, "tool_selection", NoContext, 80)

\* The values record_tool_execution is handed: a parsed JSON document (a dict),
\* None, or an object with a success attribute (a ToolResult).
ResultDict(ok) == [kind |-> "dict", success |-> ok]
ResultRaw == [kind |-> "dict_raw", success |-> FALSE]
ResultNone == [kind |-> "none", success |-> FALSE]
ResultObject(ok) == [kind |-> "object", success |-> ok]

\* getattr(result, 'success', True) if hasattr(result, 'success') else True
ExecutionSuccess(res) == IF res.kind = "object" THEN res.success ELSE TRUE

record_tool_execution(L, tool_name, res) ==
    add_reasoning_step(L, "execution", <<tool_name>>,
                       IF ExecutionSuccess(res) THEN 90 ELSE 50)

synthesize_solution(L) == add_reasoning_step(L, "synthesis", NoContext, 85)

verify_solution(L) == add_reasoning_step(L, "verification", NoContext, 90)

make_final_decision(L, confidence) == add_reasoning_step(L, "decision", NoContext, confidence)

clear_reasoning_KeepCounter(L, t) ==
    [L EXCEPT !.reasoning_steps = <<>>, !.reasoning_session_id = t]

\* clear_reasoning at clock second t
clear_reasoning(L, t) ==
    [reasoning_steps |-> <<>>, current_step |-> 0, reasoning_session_id |-> t]

\* ghost bookkeeping: caller c appended the steps that took L to L2
OwnerAfter(L2, c) ==
    owner \o [i \in 1..(Len(L2.reasoning_steps) - Len(owner)) |-> c]

-----------------------------------------------------------------------------
(* The ledger driven directly by a caller *)

LedgerCaller == "direct"

LedgerApply(L2) ==
    /\ Len(reasoner.reasoning_steps) < MaxSteps
    /\ reasoner' = L2
    /\ owner' = OwnerAfter(L2, LedgerCaller)
    /\ UNCHANGED <<now, runVars, spy, envVars>>

LedgerAnalyze == LedgerApply(analyze_scenario(reasoner))
LedgerPlan == LedgerApply(plan_tool_usage(reasoner))
LedgerSelectTool == LedgerApply(select_tool(reasoner))
LedgerRecordExecution ==
    \E res \in {ResultDict(TRUE), ResultObject(FALSE), ResultNone} :
        LedgerApply(record_tool_execution(reasoner, "check_traffic", res))
LedgerSynthesize == LedgerApply(synthesize_solution(reasoner))
LedgerVerify == LedgerApply(verify_solution(reasoner))
LedgerDecide == \E c \in {80, 92} : LedgerApply(make_final_decision(reasoner, c))

\* reset_reasoning_session()
LedgerClear ==
    /\ reasoner' = clear_reasoning(reasoner, now)
    /\ owner' = <<>>
    /\ UNCHANGED <<now, runVars, spy, envVars>>

Tick ==
    /\ now < MaxClock
    /\ now' = now + 1
    /\ UNCHANGED <<ledgerVars, runVars, spy, envVars>>

-----------------------------------------------------------------------------
(* Tool contract and the concrete tools: src/src/tools/base.py, logistics.py *)

\* ToolRegistry._initialize_tools: the names registered at startup
ToolNames ==
    {"check_traffic", "get_merchant_status", "notify_customer",
     "calculate_alternative_route", "contact_recipient", "find_nearby_locker",
     "initiate_mediation_flow", "analyze_evidence"}

\* ToolRegistry._initialize_tools: one instance of each tool class, by name
InitialRegistry == [n \in ToolNames |-> "builtin"]

get_tool_DefaultTool(reg, tool_name) ==
    IF tool_name \in DOMAIN reg THEN <<reg[tool_name]>> ELSE <<"builtin">>

\* get_tool: Optional[BaseTool], <<>> is None
get_tool(reg, tool_name) ==
    IF tool_name \in DOMAIN reg THEN <<reg[tool_name]>> ELSE <<>>

\* get_all_tools: a copy of the name -> instance map
get_all_tools(reg) == [n \in DOMAIN reg |-> reg[n]]

\* register_custom_tool: self._tools[tool.name] = tool
register_custom_tool(reg, tool) ==
    [n \in DOMAIN reg \cup {tool.name} |->
        IF n = tool.name THEN tool.instance ELSE reg[n]]

\* is_tool_available: tool_name in self._tools
is_tool_available(reg, tool_name) == tool_name \in DOMAIN reg

\* The tool instances a caller registers at run time: a new name, and the name
\* of a tool registered at startup.
CustomTools ==
    [name : {"weather_lookup", "check_traffic"}, instance : {"custom_a", "custom_b"}]

\* The names a caller looks up
LookupNames == ToolNames \cup {"weather_lookup", "no_such_tool"}

\* tool_registry.register_custom_tool(tool)
RegisterCustomTool ==
    \E tool \in CustomTools :
        /\ registry' = register_custom_tool(registry, tool)
        /\ probe' = [op |-> "register_custom_tool", name |-> tool.name,
                     instance |-> tool.instance]
        /\ UNCHANGED <<ledgerVars, now, runVars, spy, coordinator>>

\* required_parameters of each tool, in declaration order
required_parameters(tool) ==
    CASE tool = "check_traffic" -> <<"origin", "destination">>
      [] tool = "get_merchant_status" -> <<"merchant_id">>
      [] tool = "notify_customer" -> <<"customer_id", "message_type">>
      [] tool = "calculate_alternative_route" ->
            <<"origin", "destination", "disruption_type">>
      [] tool = "contact_recipient" -> <<"recipient_id", "contact_method">>
      [] tool = "find_nearby_locker" -> <<"location", "package_size">>
      [] tool = "initiate_mediation_flow" -> <<"dispute_id", "parties_involved">>
      [] tool = "analyze_evidence" -> <<"evidence_items", "dispute_context">>
      [] OTHER -> <<>>

\* An argument map is a function from the names it holds to "v" (a value) or
\* "null" (None).
IsMissing_PresenceOnly(kwargs, param) == param \notin DOMAIN kwargs

\* param not in kwargs or kwargs[param] is None
IsMissing(kwargs, param) == param \notin DOMAIN kwargs \/ kwargs[param] = "null"

\* validate_parameters: (is_valid, the missing names in declaration order)
validate_parameters(tool, kwargs) ==
    LET Req == required_parameters(tool)
        Miss(p) == IsMissing(kwargs, p)
        missing_params == SelectSeq(Req, Miss)
    IN  [is_valid |-> missing_params = <<>>, missing_params |-> missing_params]

NoConfidence == <<>>

\* What execute does on a validated argument map is the tool's own business:
\* it returns a ToolResult (success with status SUCCESS, or a miss with status
\* PARTIAL) or raises. elapsed is the measured wall-clock time in ms.
ExecuteOutcomes ==
    { [kind |-> "return", success |-> TRUE, status |-> "SUCCESS", elapsed |-> 500],
      [kind |-> "return", success |-> FALSE, status |-> "PARTIAL", elapsed |-> 500],
      [kind |-> "raise", success |-> FALSE, status |-> "FAILURE", elapsed |-> 1] }

safe_execute_Reraise(tool, kwargs, outcome) ==
    LET v == validate_parameters(tool, kwargs) IN
    IF ~v.is_valid
    THEN [result |->
             <<[success |-> FALSE, data |-> {},
                message |-> [text |-> "Parameter validation failed: Missing required parameters",
                             names |-> v.missing_params],
                execution_time_ms |-> 0, status |-> "FAILURE", tool_name |-> tool,
                confidence_score |-> NoConfidence]>>,
          execute_calls |-> 0]
    ELSE IF outcome.kind = "raise"
    THEN [result |-> <<>>, execute_calls |-> 1]
    ELSE [result |->
             <<[success |-> outcome.success, data |-> {"payload"},
                message |-> [text |-> "completed", names |-> <<>>],
                execution_time_ms |-> outcome.elapsed, status |-> outcome.status,
                tool_name |-> tool, confidence_score |-> <<80>>]>>,
          execute_calls |-> 1]

\* safe_execute: what the call hands back (<<the ToolResult>>; <<>> would be an
\* exception leaving the call) and the number of execute invocations. data is
\* the set of keys of the data dict; status is the ToolStatus member.
safe_execute(tool, kwargs, outcome) ==
    LET v == validate_parameters(tool, kwargs) IN
    IF ~v.is_valid
    THEN [result |->
             <<[success |-> FALSE, data |-> {},
                message |-> [text |-> "Parameter validation failed: Missing required parameters",
                             names |-> v.missing_params],
                execution_time_ms |-> 0, status |-> "FAILURE", tool_name |-> tool,
                confidence_score |-> NoConfidence]>>,
          execute_calls |-> 0]
    ELSE IF outcome.kind = "raise"
    THEN [result |->
             <<[success |-> FALSE, data |-> {"error", "error_type"},
                message |-> [text |-> "Tool execution failed", names |-> <<>>],
                execution_time_ms |-> outcome.elapsed, status |-> "FAILURE",
                tool_name |-> tool, confidence_score |-> NoConfidence]>>,
          execute_calls |-> 1]
    ELSE [result |->
             <<[success |-> outcome.success, data |-> {"payload"},
                message |-> [text |-> "completed", names |-> <<>>],
                execution_time_ms |-> outcome.elapsed, status |-> outcome.status,
                tool_name |-> tool, confidence_score |-> <<80>>]>>,
          execute_calls |-> 1]

\* The argument maps tried at the tool boundary: every required parameter given,
\* absent or None, with or without one further (optional) name.
ArgStates == {"v", "null", "absent"}

KwargsOf(tool, choice, extra) ==
    LET Req == required_parameters(tool)
        Given == {Req[i] : i \in {j \in 1..Len(Req) : choice[j] # "absent"}}
        Idx(p) == CHOOSE i \in 1..Len(Req) : Req[i] = p
    IN  [p \in Given \cup extra |-> IF p \in Given THEN choice[Idx(p)] ELSE "v"]

NoSpy ==
    [tool_name |-> "", kwargs |-> <<>>, called |-> FALSE, raises |-> FALSE,
     result |-> <<>>, execute_calls |-> 0]

\* One call of safe_execute on a spy tool
SafeExecuteCall ==
    \E tool \in ToolNames, outcome \in ExecuteOutcomes, extra \in {{}, {"priority_level"}} :
      \E choice \in [1..Len(required_parameters(tool)) -> ArgStates] :
        LET kwargs == KwargsOf(tool, choice, extra)
            run == safe_execute(tool, kwargs, outcome)
        IN  /\ spy' = [tool_name |-> tool, kwargs |-> kwargs, called |-> TRUE,
                       raises |-> outcome.kind = "raise",
                       result |-> run.result,
                       execute_calls |-> run.execute_calls]
            /\ UNCHANGED <<ledgerVars, now, runVars, envVars>>

-----------------------------------------------------------------------------
(* Messages, oracle replies and the JSON boundary: src/src/agent/coordinator.py *)

Runs == {"run1", "run2"}

TextContent == [kind |-> "text"]
ErrorTextContent == [kind |-> "error_text"]
ListContent == [kind |-> "list"]

\* ToolStatus: the members and their values
ToolStatus == {"SUCCESS", "FAILURE", "PARTIAL", "TIMEOUT"}

StatusValue(status) ==
    CASE status = "SUCCESS" -> "success"
      [] status = "FAILURE" -> "failure"
      [] status = "PARTIAL" -> "partial"
      [] status = "TIMEOUT" -> "timeout"

to_dict_ConfidenceOrZero(res) ==
    [success |-> res.success, data |-> res.data, message |-> res.message,
     execution_time_ms |-> res.execution_time_ms, status |-> StatusValue(res.status),
     tool_name |-> res.tool_name,
     confidence_score |-> IF res.confidence_score = <<>> THEN <<0>>
                          ELSE res.confidence_score,
     additional_context |-> {}]

\* ToolResult.to_dict: the status becomes its value, the rest is copied
to_dict(res) ==
    [success |-> res.success, data |-> res.data, message |-> res.message,
     execution_time_ms |-> res.execution_time_ms, status |-> StatusValue(res.status),
     tool_name |-> res.tool_name, confidence_score |-> res.confidence_score,
     additional_context |-> {}]

\* JSON scalars as tokens: a literal (true, false, null), a number or a string
JsonLiteral(word) == [t |-> word, n |-> 0, s |-> ""]
JsonNumber(n) == [t |-> "number", n |-> n, s |-> ""]
JsonString(str) == [t |-> "string", n |-> 0, s |-> str]

EncodeBool(b) == IF b THEN JsonLiteral("true") ELSE JsonLiteral("false")
EncodeOptionalNumber(v) == IF v = <<>> THEN JsonLiteral("null") ELSE JsonNumber(v[1])

DecodeBool(token) == token.t = "true"
DecodeOptionalNumber(token) == IF token.t = "null" THEN <<>> ELSE <<token.n>>

\* json.dumps of the document of a ToolResult
json_dumps(doc) ==
    [kind |-> "json",
     text |-> [success |-> EncodeBool(doc.success),
               data |-> doc.data,
               message |-> doc.message,
               execution_time_ms |-> JsonNumber(doc.execution_time_ms),
               status |-> JsonString(doc.status),
               tool_name |-> JsonString(doc.tool_name),
               confidence_score |-> EncodeOptionalNumber(doc.confidence_score),
               additional_context |-> doc.additional_context]]

\* json.loads: <<the document>>, or a decode failure
json_loads(content) ==
    IF content.kind = "json"
    THEN [ok |-> TRUE,
          doc |-> <<[success |-> DecodeBool(content.text.success),
                     data |-> content.text.data,
                     message |-> content.text.message,
                     execution_time_ms |-> content.text.execution_time_ms.n,
                     status |-> content.text.status.s,
                     tool_name |-> content.text.tool_name.s,
                     confidence_score |->
                         DecodeOptionalNumber(content.text.confidence_score),
                     additional_context |-> content.text.additional_context]>>]
    ELSE [ok |-> FALSE, doc |-> <<>>]

\* The system prompt carries the catalog: one line per entry of self.tools
SystemMessage(tools) ==
    [type |-> "system", content |-> [kind |-> "text", catalog |-> tools],
     tool_calls |-> <<>>, tool_call_id |-> <<>>]
HumanMessage ==
    [type |-> "human", content |-> TextContent, tool_calls |-> <<>>, tool_call_id |-> <<>>]
AIMessage(content, tool_calls) ==
    [type |-> "ai", content |-> content, tool_calls |-> tool_calls, tool_call_id |-> <<>>]
ToolMessage(content, tool_call_id) ==
    [type |-> "tool", content |-> content, tool_calls |-> <<>>, tool_call_id |-> tool_call_id]

ToolCall(name, args, id) == [name |-> name, args |-> args, id |-> id]

\* The last AIMessage of a transcript, as <<>> or <<message>>
LastAI(messages) ==
    LET Idx == {i \in 1..Len(messages) : messages[i].type = "ai"}
    IN  IF Idx = {} THEN <<>>
        ELSE <<messages[CHOOSE i \in Idx : \A j \in Idx : j <= i]>>

\* reversed(messages): the last ToolMessage with the given tool_call_id
FindToolMessage(messages, call_id) ==
    LET Idx == {i \in 1..Len(messages) :
                   messages[i].type = "tool" /\ messages[i].tool_call_id = call_id}
    IN  IF Idx = {} THEN <<>>
        ELSE <<messages[CHOOSE i \in Idx : \A j \in Idx : j <= i]>>

-----------------------------------------------------------------------------
(* Forced tool calls: SynapseCoordinator._create_forced_tool_calls *)

ForcedCap == 3

TrafficWords ==
    {"traffic", "congestion", "road", "route", "accident", "obstruction", "delay"}
MerchantWords == {"restaurant", "merchant", "kitchen", "prep", "order"}
CustomerWords == {"customer", "recipient", "address", "contact", "notify"}

\* A scenario text is modelled by the set of words it contains; lower() folds
\* the capitalised spellings.
Lower(word) ==
    CASE word = "Traffic" -> "traffic"
      [] word = "Customer" -> "customer"
      [] OTHER -> word

LowerText(scenario) == {Lower(w) : w \in scenario}

FullArgs(tool) ==
    LET Req == required_parameters(tool)
    IN  [p \in {Req[i] : i \in 1..Len(Req)} |-> "v"]

ForcedArgs_NoDisruptionType(name) ==
    CASE name = "check_traffic" ->
             [origin |-> "v", destination |-> "v", current_time |-> "v"]
      [] name = "calculate_alternative_route" ->
             [origin |-> "v", destination |-> "v"]
      [] name = "get_merchant_status" -> [merchant_id |-> "v"]
      [] name = "notify_customer" ->
             [customer_id |-> "v", message_type |-> "v", estimated_delay |-> "v"]
      [] OTHER ->
             [recipient_id |-> "v", contact_method |-> "v", urgency_level |-> "v"]

\* the argument maps written out in _create_forced_tool_calls, every value
\* being a string or a number (never None)
ForcedArgs(name) ==
    CASE name = "check_traffic" ->
             [origin |-> "v", destination |-> "v", current_time |-> "v"]
      [] name = "calculate_alternative_route" ->
             [origin |-> "v", destination |-> "v", disruption_type |-> "v"]
      [] name = "get_merchant_status" -> [merchant_id |-> "v"]
      [] name = "notify_customer" ->
             [customer_id |-> "v", message_type |-> "v", estimated_delay |-> "v"]
      [] OTHER ->
             [recipient_id |-> "v", contact_method |-> "v", urgency_level |-> "v"]

\* add_call: append when the coordinator has the tool
add_call(calls, tools, name) ==
    IF name \in tools
    THEN Append(calls, ToolCall(name, ForcedArgs(name), <<"forced", name, Len(calls) + 1>>))
    ELSE calls

Prefix(seq, n) == SubSeq(seq, 1, IF Len(seq) < n THEN Len(seq) ELSE n)

\* _create_forced_tool_calls: the rule table in order, cut to the first three
create_forced_tool_calls(scenario, tools) ==
    LET s == LowerText(scenario)
        c0 == <<>>
        c1 == IF s \cap TrafficWords # {}
              THEN add_call(add_call(c0, tools, "check_traffic"), tools,
                            "calculate_alternative_route")
              ELSE c0
        c2 == IF s \cap MerchantWords # {}
              THEN add_call(c1, tools, "get_merchant_status") ELSE c1
        c3 == IF s \cap CustomerWords # {}
              THEN add_call(add_call(c2, tools, "notify_customer"), tools, "contact_recipient")
              ELSE c2
    IN  Prefix(c3, ForcedCap)

-----------------------------------------------------------------------------
(* Confidence extraction: SynapseCoordinator._extract_confidence_from_response *)
(* A response text is a sequence of characters; the word "confidence" and    *)
(* any other run of letters ("w") are single elements.                       *)

Digits == {"0", "1", "2", "3", "4", "5", "6", "7", "8", "9"}

DigitVal(c) ==
    CASE c = "0" -> 0 [] c = "1" -> 1 [] c = "2" -> 2 [] c = "3" -> 3 [] c = "4" -> 4
      [] c = "5" -> 5 [] c = "6" -> 6 [] c = "7" -> 7 [] c = "8" -> 8 [] c = "9" -> 9

RECURSIVE DigitsValue(_)
DigitsValue(ds) ==
    IF ds = <<>> THEN 0
    ELSE 10 * DigitsValue(SubSeq(ds, 1, Len(ds) - 1)) + DigitVal(ds[Len(ds)])

\* the end of the longest run of elements of S that starts at position i
RunEnd(text, i, S) ==
    CHOOSE j \in i..Len(text) :
        /\ \A k \in i..j : text[k] \in S
        /\ (j = Len(text) \/ text[j + 1] \notin S)

Min(S) == CHOOSE x \in S : \A y \in S : x <= y

\* re.search(r'(\d+)%', text): <<>> or <<the digits of group 1>>
PercentMatch(text) ==
    LET Starts == {i \in 1..Len(text) :
                      /\ text[i] \in Digits
                      /\ RunEnd(text, i, Digits) < Len(text)
                      /\ text[RunEnd(text, i, Digits) + 1] = "%"}
    IN  IF Starts = {} THEN <<>>
        ELSE <<SubSeq(text, Min(Starts), RunEnd(text, Min(Starts), Digits))>>

Separators == {":", " "}
NumberChars == Digits \cup {"."}
ConfidenceWords == {"confidence", "Confidence"}

\* re.search(r'confidence[:\s]+([0-9.]+)', text, re.IGNORECASE): <<>> or <<group 1>>
DecimalMatch(text) ==
    LET Starts == {i \in 1..Len(text) :
                      /\ text[i] \in ConfidenceWords
                      /\ i < Len(text)
                      /\ text[i + 1] \in Separators
                      /\ RunEnd(text, i + 1, Separators) < Len(text)
                      /\ text[RunEnd(text, i + 1, Separators) + 1] \in NumberChars}
        g == RunEnd(text, Min(Starts) + 1, Separators) + 1
    IN  IF Starts = {} THEN <<>>
        ELSE <<SubSeq(text, g, RunEnd(text, g, NumberChars))>>

\* float(group) in hundredths: <<>> when float raises ValueError. The texts
\* explored carry at most two fraction digits.
ParseFloat(group) ==
    LET Dots == {i \in 1..Len(group) : group[i] = "."}
        IntPart == IF Dots = {} THEN group ELSE SubSeq(group, 1, Min(Dots) - 1)
        Frac == IF Dots = {} THEN <<>> ELSE SubSeq(group, Min(Dots) + 1, Len(group))
        Frac2 == SubSeq(Frac \o <<"0", "0">>, 1, 2)
    IN  IF Cardinality(Dots) > 1 \/ Len(group) = Cardinality(Dots) THEN <<>>
        ELSE <<100 * DigitsValue(IntPart) + DigitsValue(Frac2)>>

DefaultConfidence == 80

extract_confidence_DecimalFirst(text) ==
    LET percent_match == PercentMatch(text)
        decimal_match == DecimalMatch(text)
    IN  IF decimal_match # <<>> /\ ParseFloat(decimal_match[1]) # <<>>
        THEN (IF ParseFloat(decimal_match[1])[1] < 100
              THEN ParseFloat(decimal_match[1])[1] ELSE 100)
        ELSE IF percent_match # <<>>
        THEN DigitsValue(percent_match[1])
        ELSE DefaultConfidence

extract_confidence_from_response(text) ==
    LET percent_match == PercentMatch(text)
        decimal_match == DecimalMatch(text)
    IN  IF percent_match # <<>>
        THEN DigitsValue(percent_match[1])
        ELSE IF decimal_match # <<>> /\ ParseFloat(decimal_match[1]) # <<>>
        THEN (IF ParseFloat(decimal_match[1])[1] < 100
              THEN ParseFloat(decimal_match[1])[1] ELSE 100)
        ELSE DefaultConfidence

\* Solution plan decoding: SynapseCoordinator._extract_solution_from_response.
\* A string content is described by what find('{') and rfind('}') return on it
\* and by whether the span between them decodes; a content that is not a string
\* has no find and the AttributeError is swallowed.
StrContent(first_open, last_close, span_decodes) ==
    [kind |-> "str", first_open |-> first_open, last_close |-> last_close,
     span_decodes |-> span_decodes]

extract_solution_from_response(content) ==
    IF content.kind # "str" THEN "default_plan"
    ELSE LET start == content.first_open
             end == content.last_close + 1
         IN  IF start >= 0 /\ end > start /\ content.span_decodes
             THEN "decoded_plan" ELSE "default_plan"

-----------------------------------------------------------------------------
(* The workflow: SynapseCoordinator, one AgentState per resolve call *)

ToolThreshold == 3

NoPlan == <<>>

IdleState ==
    [messages |-> <<>>, scenario |-> {}, reasoning_steps |-> <<>>,
     tool_calls_made |-> <<>>, gathered_data |-> <<>>, solution_plan |-> NoPlan,
     current_iteration |-> 0, max_iterations |-> 0, confidence_score |-> 0,
     status |-> "idle"]

\* initial_state of resolve_scenario
InitialState(scenario, max_iterations) ==
    [IdleState EXCEPT !.scenario = scenario, !.max_iterations = max_iterations,
                      !.status = "processing"]

\* _has_tool_calls: the routing after call_model
has_tool_calls(st) ==
    LET last_ai == LastAI(st.messages) IN
    IF last_ai # <<>> /\ last_ai[1].tool_calls # <<>> THEN "use_tools"
    ELSE IF last_ai = <<>> /\ st.messages # <<>> THEN "retry"
    ELSE "synthesize"

UniqueTools_SuccessfulOnly(gathered_data) ==
    {gathered_data[i].tool_name :
         i \in {j \in 1..Len(gathered_data) : gathered_data[j].result.success}}

UniqueTools(gathered_data) ==
    {gathered_data[i].tool_name : i \in 1..Len(gathered_data)}

should_continue_reasoning_ToolsOnly(st) ==
    IF Cardinality(UniqueTools(st.gathered_data)) >= ToolThreshold THEN "synthesize"
    ELSE "continue"

should_continue_reasoning_CeilingOnly(st) ==
    IF st.current_iteration >= st.max_iterations THEN "synthesize" ELSE "continue"

\* _should_continue_reasoning: the routing after after_tools
should_continue_reasoning(st) ==
    IF st.current_iteration >= st.max_iterations THEN "synthesize"
    ELSE IF Cardinality(UniqueTools(st.gathered_data)) >= ToolThreshold THEN "synthesize"
    ELSE "continue"

\* [step.to_dict() for step in self.reasoner.reasoning_steps]
Snapshot(L) == L.reasoning_steps

\* SynapseCoordinator.__init__: self.tools = get_available_tools()
NewCoordinator(reg) == [tools |-> get_all_tools(reg)]

\* get_coordinator: the singleton, constructed on first use
get_coordinator(c, reg) == IF c = <<>> THEN <<NewCoordinator(reg)>> ELSE c

\* A caller obtains the coordinator without starting a run
GetCoordinator ==
    /\ coordinator = <<>>
    /\ coordinator' = get_coordinator(coordinator, registry)
    /\ UNCHANGED <<ledgerVars, now, runVars, spy, registry, probe>>

Resolve_SharedState(r, scenario, max_iterations) ==
    /\ pc[r] = "idle"
    /\ coordinator' = get_coordinator(coordinator, registry)
    /\ reasoner' = clear_reasoning(reasoner, now)
    /\ owner' = <<>>
    /\ state' = [q \in Runs |-> InitialState(scenario, max_iterations)]
    /\ pc' = [pc EXCEPT ![r] = "call_model"]
    /\ last_node' = [last_node EXCEPT ![r] = "start"]
    /\ UNCHANGED <<now, result, spy, registry, probe>>

\* resolve_scenario, up to the start of the workflow
Resolve(r, scenario, max_iterations) ==
    /\ pc[r] = "idle"
    /\ coordinator' = get_coordinator(coordinator, registry)
    /\ reasoner' = clear_reasoning(reasoner, now)
    /\ owner' = <<>>
    /\ state' = [state EXCEPT ![r] = InitialState(scenario, max_iterations)]
    /\ pc' = [pc EXCEPT ![r] = "call_model"]
    /\ last_node' = [last_node EXCEPT ![r] = "start"]
    /\ UNCHANGED <<now, result, spy, registry, probe>>

CallModelBegin_ReseedEveryEntry(r) ==
    /\ pc[r] = "call_model"
    /\ state' = [state EXCEPT ![r].messages =
                     <<SystemMessage(coordinator[1].tools), HumanMessage>>]
    /\ IF state[r].messages = <<>>
       THEN /\ reasoner' = add_reasoning_step(analyze_scenario(reasoner), "planning", NoContext, 85)
            /\ owner' = OwnerAfter(reasoner', r)
       ELSE UNCHANGED <<reasoner, owner>>
    /\ pc' = [pc EXCEPT ![r] = "call_model_await"]
    /\ UNCHANGED <<now, result, last_node, spy, envVars>>

CallModelBegin_AnalyzeEveryEntry(r) ==
    /\ pc[r] = "call_model"
    /\ IF state[r].messages = <<>>
       THEN state' = [state EXCEPT ![r].messages =
                         <<SystemMessage(coordinator[1].tools), HumanMessage>>]
       ELSE UNCHANGED state
    /\ reasoner' = add_reasoning_step(analyze_scenario(reasoner), "planning", NoContext, 85)
    /\ owner' = OwnerAfter(reasoner', r)
    /\ pc' = [pc EXCEPT ![r] = "call_model_await"]
    /\ UNCHANGED <<now, result, last_node, spy, envVars>>

\* _call_model_node up to the await of the oracle
CallModelBegin(r) ==
    /\ pc[r] = "call_model"
    /\ IF state[r].messages = <<>>
       THEN /\ state' = [state EXCEPT ![r].messages =
                            <<SystemMessage(coordinator[1].tools), HumanMessage>>]
            /\ reasoner' = add_reasoning_step(analyze_scenario(reasoner), "planning", NoContext, 85)
            /\ owner' = OwnerAfter(reasoner', r)
       ELSE UNCHANGED <<state, reasoner, owner>>
    /\ pc' = [pc EXCEPT ![r] = "call_model_await"]
    /\ UNCHANGED <<now, result, last_node, spy, envVars>>

CoerceReply_NoWrap(reply) ==
    IF reply.kind = "ai" THEN AIMessage(TextContent, reply.tool_calls)
    ELSE [AIMessage(TextContent, <<>>) EXCEPT !.type = "human"]

\* The oracle's answers in deciding: an AIMessage with tool calls (possibly
\* none), or a value that is no AIMessage and is wrapped into one.
CoerceReply(reply) ==
    IF reply.kind = "ai" THEN AIMessage(TextContent, reply.tool_calls)
    ELSE AIMessage(TextContent, <<>>)

CallModelResume_ForceAlways(r, reply) ==
    /\ pc[r] = "call_model_await"
    /\ LET ai_msg == CoerceReply(reply)
           m1 == Append(state[r].messages, ai_msg)
           forced_calls ==
               IF ai_msg.tool_calls = <<>>
               THEN create_forced_tool_calls(state[r].scenario, DOMAIN coordinator[1].tools)
               ELSE <<>>
           m2 == IF forced_calls # <<>>
                 THEN Append(m1, AIMessage(TextContent, forced_calls)) ELSE m1
           st == [state[r] EXCEPT !.messages = m2,
                                  !.reasoning_steps = Snapshot(reasoner)]
           route == has_tool_calls(st)
       IN  /\ state' = [state EXCEPT ![r] = st]
           /\ pc' = [pc EXCEPT ![r] =
                        CASE route = "use_tools" -> "tools"
                          [] route = "retry" -> "call_model"
                          [] OTHER -> "synthesis"]
    /\ last_node' = [last_node EXCEPT ![r] = "call_model"]
    /\ UNCHANGED <<reasoner, owner, now, result, spy, envVars>>

\* _call_model_node from the oracle's answer on, and the routing that follows
CallModelResume(r, reply) ==
    /\ pc[r] = "call_model_await"
    /\ LET ai_msg == CoerceReply(reply)
           m1 == Append(state[r].messages, ai_msg)
           forced_calls ==
               IF ai_msg.tool_calls = <<>> /\ state[r].current_iteration = 0
               THEN create_forced_tool_calls(state[r].scenario, DOMAIN coordinator[1].tools)
               ELSE <<>>
           m2 == IF forced_calls # <<>>
                 THEN Append(m1, AIMessage(TextContent, forced_calls)) ELSE m1
           st == [state[r] EXCEPT !.messages = m2,
                                  !.reasoning_steps = Snapshot(reasoner)]
           route == has_tool_calls(st)
       IN  /\ state' = [state EXCEPT ![r] = st]
           /\ pc' = [pc EXCEPT ![r] =
                        CASE route = "use_tools" -> "tools"
                          [] route = "retry" -> "call_model"
                          [] OTHER -> "synthesis"]
    /\ last_node' = [last_node EXCEPT ![r] = "call_model"]
    /\ UNCHANGED <<reasoner, owner, now, result, spy, envVars>>

\* The tool function bound to each tool (make_tool_func) and the dispatch of one
\* requested call by the tools node: a known name runs safe_execute and returns
\* the JSON of its result; an unknown name is answered with an error text.
DispatchCall(tools, call, outcome) ==
    IF call.name \in DOMAIN tools
    THEN ToolMessage(json_dumps(to_dict(safe_execute(call.name, call.args, outcome).result[1])),
                     call.id)
    ELSE ToolMessage(ErrorTextContent, call.id)

\* The tools node: one ToolMessage per call of the last AIMessage, in the
\* order of the calls; outcomes[i] is what the i-th tool's execute does.
ToolsNode(r, Outs) ==
    /\ pc[r] = "tools"
    /\ LET calls == LastAI(state[r].messages)[1].tool_calls IN
       \E outcomes \in [1..Len(calls) -> Outs] :
          LET replies == [i \in 1..Len(calls) |->
                            DispatchCall(coordinator[1].tools, calls[i], outcomes[i])]
          IN  state' = [state EXCEPT ![r].messages = @ \o replies]
    /\ pc' = [pc EXCEPT ![r] = "after_tools"]
    /\ last_node' = [last_node EXCEPT ![r] = "tools"]
    /\ UNCHANGED <<reasoner, owner, now, result, spy, envVars>>

\* output_parsed for one call of _after_tools_node
OutputParsed(messages, call) ==
    LET tool_msg == FindToolMessage(messages, call.id) IN
    IF tool_msg = <<>> THEN ResultNone
    ELSE IF json_loads(tool_msg[1].content).ok
    THEN ResultDict(json_loads(tool_msg[1].content).doc[1].success)
    ELSE ResultRaw

ToolCallRecord(call) ==
    [tool_name |-> call.name, args |-> call.args, tool_call_id |-> call.id]

GatheredDataEntry(call, parsed) == [tool_name |-> call.name, result |-> parsed]

BookkeepCall_SkipFailedStep(prev, call, parsed) ==
    [tool_calls_made |-> Append(prev.tool_calls_made, ToolCallRecord(call)),
     gathered_data |->
         IF parsed.kind # "none"
         THEN Append(prev.gathered_data, GatheredDataEntry(call, parsed))
         ELSE prev.gathered_data,
     reasoner |-> IF parsed.success
                  THEN record_tool_execution(prev.reasoner, call.name, parsed)
                  ELSE prev.reasoner]

BookkeepCall_AlwaysGather(prev, call, parsed) ==
    [tool_calls_made |-> Append(prev.tool_calls_made, ToolCallRecord(call)),
     gathered_data |-> Append(prev.gathered_data, GatheredDataEntry(call, parsed)),
     reasoner |-> record_tool_execution(prev.reasoner, call.name, parsed)]

BookkeepCall_Prepend(prev, call, parsed) ==
    [tool_calls_made |-> <<ToolCallRecord(call)>> \o prev.tool_calls_made,
     gathered_data |->
         IF parsed.kind # "none"
         THEN <<GatheredDataEntry(call, parsed)>> \o prev.gathered_data
         ELSE prev.gathered_data,
     reasoner |-> record_tool_execution(prev.reasoner, call.name, parsed)]

\* one turn of the loop of _after_tools_node: the record, the gathered data
\* entry and the execution step of one call
BookkeepCall(prev, call, parsed) ==
    [tool_calls_made |-> Append(prev.tool_calls_made, ToolCallRecord(call)),
     gathered_data |->
         IF parsed.kind # "none"
         THEN Append(prev.gathered_data, GatheredDataEntry(call, parsed))
         ELSE prev.gathered_data,
     reasoner |-> record_tool_execution(prev.reasoner, call.name, parsed)]

\* the loop of _after_tools_node over calls[1..n], as a fold over
\* [tool_calls_made, gathered_data, reasoner]
RECURSIVE Bookkeep(_, _, _, _)
Bookkeep(acc, messages, calls, n) ==
    IF n = 0 THEN acc
    ELSE CHOOSE next \in
             {BookkeepCall(prev, calls[n], parsed) :
                  prev \in {Bookkeep(acc, messages, calls, n - 1)},
                  parsed \in {OutputParsed(messages, calls[n])}} : TRUE

\* tool_calls of the last AIMessage, [] when there is none
LastCalls(messages) ==
    IF LastAI(messages) # <<>> THEN LastAI(messages)[1].tool_calls ELSE <<>>

AfterTools_CountCalls(r) ==
    /\ pc[r] = "after_tools"
    /\ \E acc \in {Bookkeep([tool_calls_made |-> state[r].tool_calls_made,
                              gathered_data |-> state[r].gathered_data,
                              reasoner |-> reasoner],
                             state[r].messages, LastCalls(state[r].messages),
                             Len(LastCalls(state[r].messages)))} :
       \E st \in {[state[r] EXCEPT !.tool_calls_made = acc.tool_calls_made,
                                    !.gathered_data = acc.gathered_data,
                                    !.current_iteration =
                                        @ + Len(LastCalls(state[r].messages)),
                                    !.reasoning_steps = Snapshot(acc.reasoner)]} :
           /\ reasoner' = acc.reasoner
           /\ owner' = OwnerAfter(acc.reasoner, r)
           /\ state' = [state EXCEPT ![r] = st]
           /\ pc' = [pc EXCEPT ![r] =
                        IF should_continue_reasoning(st) = "continue"
                        THEN "call_model" ELSE "synthesis"]
    /\ last_node' = [last_node EXCEPT ![r] = "after_tools"]
    /\ UNCHANGED <<now, result, spy, envVars>>

\* _after_tools_node and the routing that follows
AfterTools(r) ==
    /\ pc[r] = "after_tools"
    /\ \E acc \in {Bookkeep([tool_calls_made |-> state[r].tool_calls_made,
                              gathered_data |-> state[r].gathered_data,
                              reasoner |-> reasoner],
                             state[r].messages, LastCalls(state[r].messages),
                             Len(LastCalls(state[r].messages)))} :
       \E st \in {[state[r] EXCEPT !.tool_calls_made = acc.tool_calls_made,
                                    !.gathered_data = acc.gathered_data,
                                    !.current_iteration = @ + 1,
                                    !.reasoning_steps = Snapshot(acc.reasoner)]} :
           /\ reasoner' = acc.reasoner
           /\ owner' = OwnerAfter(acc.reasoner, r)
           /\ state' = [state EXCEPT ![r] = st]
           /\ pc' = [pc EXCEPT ![r] =
                        IF should_continue_reasoning(st) = "continue"
                        THEN "call_model" ELSE "synthesis"]
    /\ last_node' = [last_node EXCEPT ![r] = "after_tools"]
    /\ UNCHANGED <<now, result, spy, envVars>>

\* _synthesis_node up to the await of the oracle
SynthesisBegin(r) ==
    /\ pc[r] = "synthesis"
    /\ reasoner' = add_reasoning_step(reasoner, "synthesis", NoContext, 85)
    /\ owner' = OwnerAfter(reasoner', r)
    /\ pc' = [pc EXCEPT ![r] = "synthesis_await"]
    /\ UNCHANGED <<state, now, result, last_node, spy, envVars>>

SynthesisResume_Completes(r, content) ==
    /\ pc[r] = "synthesis_await"
    /\ state' = [state EXCEPT
                    ![r].solution_plan = <<extract_solution_from_response(content)>>,
                    ![r].status = "completed",
                    ![r].messages = Append(@, AIMessage(content, <<>>)),
                    ![r].reasoning_steps = Snapshot(reasoner)]
    /\ pc' = [pc EXCEPT ![r] = "verification"]
    /\ last_node' = [last_node EXCEPT ![r] = "synthesis"]
    /\ UNCHANGED <<reasoner, owner, now, result, spy, envVars>>

SynthesisResume_KeepNull(r, content) ==
    /\ pc[r] = "synthesis_await"
    /\ state' = [state EXCEPT
                    ![r].messages = Append(@, AIMessage(content, <<>>)),
                    ![r].reasoning_steps = Snapshot(reasoner)]
    /\ pc' = [pc EXCEPT ![r] = "verification"]
    /\ last_node' = [last_node EXCEPT ![r] = "synthesis"]
    /\ UNCHANGED <<reasoner, owner, now, result, spy, envVars>>

\* _synthesis_node from the oracle's answer on
SynthesisResume(r, content) ==
    /\ pc[r] = "synthesis_await"
    /\ state' = [state EXCEPT
                    ![r].solution_plan = <<extract_solution_from_response(content)>>,
                    ![r].messages = Append(@, AIMessage(content, <<>>)),
                    ![r].reasoning_steps = Snapshot(reasoner)]
    /\ pc' = [pc EXCEPT ![r] = "verification"]
    /\ last_node' = [last_node EXCEPT ![r] = "synthesis"]
    /\ UNCHANGED <<reasoner, owner, now, result, spy, envVars>>

\* _verification_node up to the await of the oracle
VerificationBegin(r) ==
    /\ pc[r] = "verification"
    /\ reasoner' = verify_solution(reasoner)
    /\ owner' = OwnerAfter(reasoner', r)
    /\ pc' = [pc EXCEPT ![r] = "verification_await"]
    /\ UNCHANGED <<state, now, result, last_node, spy, envVars>>

VerificationResume_StaysProcessing(r, text) ==
    /\ pc[r] = "verification_await"
    /\ LET confidence == extract_confidence_from_response(text)
       IN  /\ reasoner' = make_final_decision(reasoner, confidence)
           /\ owner' = OwnerAfter(reasoner', r)
           /\ state' = [state EXCEPT
                           ![r].confidence_score = confidence,
                           ![r].messages = Append(@, AIMessage(TextContent, <<>>)),
                           ![r].reasoning_steps = Snapshot(reasoner')]
    /\ pc' = [pc EXCEPT ![r] = "end"]
    /\ last_node' = [last_node EXCEPT ![r] = "verification"]
    /\ UNCHANGED <<now, result, spy, envVars>>

\* _verification_node from the oracle's answer (a text) on
VerificationResume(r, text) ==
    /\ pc[r] = "verification_await"
    /\ LET confidence == extract_confidence_from_response(text)
       IN  /\ reasoner' = make_final_decision(reasoner, confidence)
           /\ owner' = OwnerAfter(reasoner', r)
           /\ state' = [state EXCEPT
                           ![r].confidence_score = confidence,
                           ![r].status = "completed",
                           ![r].messages = Append(@, AIMessage(TextContent, <<>>)),
                           ![r].reasoning_steps = Snapshot(reasoner')]
    /\ pc' = [pc EXCEPT ![r] = "end"]
    /\ last_node' = [last_node EXCEPT ![r] = "verification"]
    /\ UNCHANGED <<now, result, spy, envVars>>

\* The call _extract_confidence_from_response(response.content) of
\* _verification_node: <<the confidence>>, or <<>> when the call raises.
\* re.search is outside the try of the function, and on a content that is not
\* a string it raises TypeError.
extract_confidence(content) ==
    IF content.kind = "str"
    THEN <<extract_confidence_from_response(content.text)>>
    ELSE <<>>

\* get_formatted_reasoning: one line per step of the ledger
get_formatted_reasoning(L) == L.reasoning_steps

ErrorLine == [step_number |-> 0, step_type |-> "Error occurred", confidence |-> 0]

RECURSIVE ToolNamesOf(_)
ToolNamesOf(records) ==
    IF records = <<>> THEN <<>>
    ELSE <<records[1].tool_name>> \o ToolNamesOf(Tail(records))

\* the ResolutionResult built after the workflow ended
SuccessResult(final_state, L) ==
    [success |-> final_state.status = "completed",
     reasoning_steps |-> get_formatted_reasoning(L),
     tools_used |-> ToolNamesOf(final_state.tool_calls_made),
     solution_plan |-> IF final_state.solution_plan = NoPlan THEN "empty_plan"
                       ELSE final_state.solution_plan[1],
     metrics |-> [total_reasoning_steps |-> Len(final_state.reasoning_steps),
                  tools_called |-> Len(final_state.tool_calls_made),
                  iterations |-> final_state.current_iteration,
                  confidence_score |-> final_state.confidence_score],
     confidence_score |-> final_state.confidence_score]

ErrorResult_KeepTools(st, L) ==
    [SuccessResult(st, L) EXCEPT !.success = FALSE, !.solution_plan = "error_plan",
                                 !.reasoning_steps = <<ErrorLine>>]

\* the ResolutionResult built by the except branch
ErrorResult(st, L) ==
    [success |-> FALSE,
     reasoning_steps |-> <<ErrorLine>>,
     tools_used |-> <<>>,
     solution_plan |-> "error_plan",
     metrics |-> [total_reasoning_steps |-> Len(L.reasoning_steps),
                  tools_called |-> 0, iterations |-> 0, confidence_score |-> 0],
     confidence_score |-> 0]

\* resolve_scenario after workflow.ainvoke returned
Return(r) ==
    /\ pc[r] = "end"
    /\ result' = [result EXCEPT ![r] = <<SuccessResult(state[r], reasoner)>>]
    /\ pc' = [pc EXCEPT ![r] = "returned"]
    /\ UNCHANGED <<reasoner, owner, now, state, last_node, spy, envVars>>

AwaitPoints == {"call_model_await", "tools", "synthesis_await", "verification_await"}

\* an exception escapes workflow.ainvoke at a suspension point and is caught by
\* the except branch of resolve_scenario
Fault(r) ==
    /\ pc[r] \in AwaitPoints
    /\ result' = [result EXCEPT ![r] = <<ErrorResult(state[r], reasoner)>>]
    /\ pc' = [pc EXCEPT ![r] = "failed"]
    /\ UNCHANGED <<reasoner, owner, now, state, last_node, spy, envVars>>

\* _verification_node when the extraction raises: the exception leaves
\* workflow.ainvoke and the except branch of resolve_scenario builds the result
VerificationRaise(r, content) ==
    /\ pc[r] = "verification_await"
    /\ extract_confidence(content) = <<>>
    /\ result' = [result EXCEPT ![r] = <<ErrorResult(state[r], reasoner)>>]
    /\ pc' = [pc EXCEPT ![r] = "failed"]
    /\ UNCHANGED <<reasoner, owner, now, state, last_node, spy, envVars>>

-----------------------------------------------------------------------------
(* Inputs explored *)

NoProbe == [op |-> "none"]

\* scenario texts, by the words they contain
Scenarios ==
    { {"parcel"},
      {"Traffic", "jam"},
      {"traffic", "customer"},
      {"traffic", "customer", "order"} }

OracleCallId(n) == <<"call", "", n>>

\* the oracle's answers in deciding: no request, an answer that is not an
\* AIMessage, one call, two calls (the second lacks a required parameter), and
\* a call of a tool that does not exist. The oracle numbers its calls from 1 in
\* every answer, so a call id comes back in a later iteration.
OracleReplies ==
    { [kind |-> "ai", tool_calls |-> <<>>],
      [kind |-> "other", tool_calls |-> <<>>],
      [kind |-> "ai", tool_calls |->
          <<ToolCall("check_traffic", FullArgs("check_traffic"), OracleCallId(1))>>],
      [kind |-> "ai", tool_calls |->
          <<ToolCall("get_merchant_status", FullArgs("get_merchant_status"), OracleCallId(1)),
            ToolCall("notify_customer", [customer_id |-> "v"], OracleCallId(2))>>],
      [kind |-> "ai", tool_calls |->
          <<ToolCall("lookup_order", [order_id |-> "v"], OracleCallId(1))>>] }

\* what a tool's execute does in a workflow run
WorkflowOutcomes == {o \in ExecuteOutcomes : o.status # "PARTIAL"}

\* the oracle's answers in synthesizing: "plan {..}", "no plan", a list
SynthesisContents ==
    { StrContent(5, 9, TRUE), StrContent(-1, -1, FALSE), ListContent }

\* the oracle's answers in verifying:
\* "92% w", "150%", "confidence: 0.55", "w"
VerificationTexts ==
    { <<"9", "2", "%", " ", "w">>,
      <<"1", "5", "0", "%">>,
      <<"confidence", ":", " ", "0", ".", "5", "5">>,
      <<"w">> }

\* the oracle's answers in verifying whose content is not a string: a list of
\* content blocks
VerificationNonStrings == { ListContent }

-----------------------------------------------------------------------------
(* Specifications *)

\* the module state at import, before any call
InitProgram ==
    /\ reasoner = NewReasoner(0)
    /\ owner = <<>>
    /\ now = 0
    /\ pc = [r \in Runs |-> "idle"]
    /\ state = [r \in Runs |-> IdleState]
    /\ result = [r \in Runs |-> <<>>]
    /\ last_node = [r \in Runs |-> "none"]
    /\ spy = NoSpy
    /\ registry = InitialRegistry
    /\ coordinator = <<>>

Init ==
    /\ InitProgram
    /\ probe = NoProbe

\* one resolve call on the coordinator
Next ==
    \/ \E s \in Scenarios, m \in 0..MaxIter : Resolve("run1", s, m)
    \/ CallModelBegin("run1")
    \/ \E reply \in OracleReplies : CallModelResume("run1", reply)
    \/ ToolsNode("run1", WorkflowOutcomes)
    \/ AfterTools("run1")
    \/ SynthesisBegin("run1")
    \/ \E content \in SynthesisContents : SynthesisResume("run1", content)
    \/ VerificationBegin("run1")
    \/ \E text \in VerificationTexts : VerificationResume("run1", text)
    \/ \E content \in VerificationNonStrings : VerificationRaise("run1", content)
    \/ Return("run1")
    \/ Fault("run1")

Spec == Init /\ [][Next]_vars

\* the ledger used directly
NextLedger ==
    \/ LedgerAnalyze
    \/ LedgerPlan
    \/ LedgerSelectTool
    \/ LedgerRecordExecution
    \/ LedgerSynthesize
    \/ LedgerVerify
    \/ LedgerDecide
    \/ LedgerClear
    \/ Tick

SpecLedger == Init /\ [][NextLedger]_vars

\* the tool boundary used directly
NextTool == SafeExecuteCall

SpecTool == Init /\ [][NextTool]_vars

\* two resolve calls on the process-wide coordinator, interleaved at their
\* suspension points
ConcScenarios == { {"traffic", "customer"} }
ConcReplies == {rep \in OracleReplies : rep.kind = "ai" /\ Len(rep.tool_calls) <= 1}
ConcOutcomes == {o \in ExecuteOutcomes : o.status = "SUCCESS"}
ConcContents == { StrContent(-1, -1, FALSE) }
ConcTexts == { <<"9", "2", "%", " ", "w">> }

NextConc ==
    \E r \in Runs :
        \/ \E s \in ConcScenarios : Resolve(r, s, 1)
        \/ CallModelBegin(r)
        \/ \E reply \in ConcReplies : CallModelResume(r, reply)
        \/ ToolsNode(r, ConcOutcomes)
        \/ AfterTools(r)
        \/ SynthesisBegin(r)
        \/ \E content \in ConcContents : SynthesisResume(r, content)
        \/ VerificationBegin(r)
        \/ \E text \in ConcTexts : VerificationResume(r, text)
        \/ Return(r)
        \/ Fault(r)

SpecConc == Init /\ [][NextConc]_vars

-----------------------------------------------------------------------------
(* Properties *)

InProgress ==
    {"call_model", "call_model_await", "tools", "after_tools", "synthesis",
     "synthesis_await", "verification", "verification_await", "end"}

AfterLoop ==
    {"synthesis", "synthesis_await", "verification", "verification_await", "end",
     "returned", "failed"}

IsPrefix(a, b) == Len(a) <= Len(b) /\ SubSeq(b, 1, Len(a)) = a

\* C1: a run that faulted at a suspension point has returned a result with
\* success=false, confidence 0, no tools used, a plan holding only the error and
\* exactly one reasoning line; the caller gets a result, not the fault.
C1_FaultYieldsFailureResult ==
    \A r \in Runs :
        pc[r] = "failed" =>
            /\ Len(result[r]) = 1
            /\ result[r][1].success = FALSE
            /\ result[r][1].confidence_score = 0
            /\ result[r][1].tools_used = <<>>
            /\ result[r][1].solution_plan = "error_plan"
            /\ Len(result[r][1].reasoning_steps) = 1

\* C1 witness: a fault in a deciding consultation after tools have already run
C1_Witness ==
    \E r \in Runs :
        /\ pc[r] = "failed"
        /\ last_node[r] = "after_tools"
        /\ state[r].tool_calls_made # <<>>

\* C2 as stated: the iteration counter never exceeds max_iterations, for every
\* max_iterations including 0.
C2_IterationNeverExceedsCeiling ==
    \A r \in Runs : state[r].current_iteration <= state[r].max_iterations

\* C2 amended: the iteration counter never exceeds max_iterations when
\* max_iterations >= 1, and never exceeds 1 otherwise.
C2_IterationWithinCeilingOrOne ==
    \A r \in Runs :
        state[r].current_iteration <=
            (IF state[r].max_iterations >= 1 THEN state[r].max_iterations ELSE 1)

\* C2 witness: a run whose counter reached a ceiling of at least 2
C2_Witness ==
    \E r \in Runs :
        /\ state[r].max_iterations >= 2
        /\ state[r].current_iteration = state[r].max_iterations
        /\ pc[r] = "synthesis"

\* C3: a bookkeeping pass that ends with the counter at or above the ceiling is
\* followed by synthesizing, never by deciding, whatever the tool diversity.
C3_CeilingLeadsToSynthesis ==
    [][\A r \in Runs :
          (/\ pc[r] = "after_tools"
           /\ pc'[r] # "after_tools"
           /\ state'[r].current_iteration >= state'[r].max_iterations)
          => pc'[r] = "synthesis"]_vars

\* C3 witness: synthesizing entered from bookkeeping at the ceiling with fewer
\* than three distinct tools gathered
C3_Witness ==
    \E r \in Runs :
        /\ pc[r] = "synthesis"
        /\ last_node[r] = "after_tools"
        /\ state[r].current_iteration >= state[r].max_iterations
        /\ Cardinality(UniqueTools(state[r].gathered_data)) < ToolThreshold

\* C4: once gathered data holds three distinct tool names the run is in
\* synthesizing or beyond: bookkeeping hands over to synthesizing and deciding,
\* invoking_tools and bookkeeping are not entered again.
C4_ThreeToolsLeadToSynthesis ==
    \A r \in Runs :
        Cardinality(UniqueTools(state[r].gathered_data)) >= 3 =>
            /\ pc[r] \in AfterLoop
            /\ last_node[r] \in {"after_tools", "synthesis", "verification"}

\* C4 witness: synthesizing entered from bookkeeping below the ceiling, on the
\* strength of three distinct tools
C4_Witness ==
    \E r \in Runs :
        /\ pc[r] = "synthesis"
        /\ last_node[r] = "after_tools"
        /\ Cardinality(UniqueTools(state[r].gathered_data)) >= 3
        /\ state[r].current_iteration < state[r].max_iterations

\* C5: the steps in the ledger are numbered 1..n in append order and the
\* counter equals n.
C5_StepNumbersGapless ==
    /\ \A i \in 1..Len(reasoner.reasoning_steps) :
          reasoner.reasoning_steps[i].step_number = i
    /\ reasoner.current_step = Len(reasoner.reasoning_steps)

\* C5 witness: steps appended after a clear that followed earlier appends
C5_Witness ==
    /\ reasoner.reasoning_session_id > 0
    /\ Len(reasoner.reasoning_steps) >= 2

\* C6: a safe_execute call with a required parameter absent or null returns
\* success=false, status FAILURE, execution time 0 and a message naming every
\* missing parameter, and execute is not invoked.
C6_MissingParameterRejected ==
    LET Req == required_parameters(spy.tool_name)
        Missing == {p \in {Req[i] : i \in 1..Len(Req)} :
                       p \notin DOMAIN spy.kwargs \/ spy.kwargs[p] = "null"}
    IN  (spy.result # <<>> /\ Missing # {}) =>
            /\ spy.result[1].success = FALSE
            /\ spy.result[1].status = "FAILURE"
            /\ spy.result[1].execution_time_ms = 0
            /\ Missing = {spy.result[1].message.names[i] :
                             i \in 1..Len(spy.result[1].message.names)}
            /\ spy.execute_calls = 0

\* C6 witness: a call with one required parameter null and another absent
C6_Witness ==
    /\ spy.result # <<>>
    /\ \E p \in DOMAIN spy.kwargs : spy.kwargs[p] = "null"
    /\ Len(spy.result[1].message.names) >= 2

\* C7 as stated: every confidence the verifying phase extracts, stores, records
\* on the DECISION step and returns lies in [0,1].
C7_ConfidenceInUnitInterval ==
    /\ \A r \in Runs :
          /\ state[r].confidence_score \in 0..100
          /\ result[r] # <<>> => result[r][1].confidence_score \in 0..100
    /\ \A i \in 1..Len(reasoner.reasoning_steps) :
          reasoner.reasoning_steps[i].confidence \in 0..100

\* C8 as stated: synthesizing is entered only after at least one invoking_tools
\* pass has completed.
C8_SynthesisOnlyAfterToolPass ==
    \A r \in Runs :
        pc[r] = "synthesis" => state[r].current_iteration >= 1

\* The forced AIMessages of a transcript
ForcedMessages(messages) ==
    {i \in 1..Len(messages) :
        /\ messages[i].type = "ai"
        /\ messages[i].tool_calls # <<>>
        /\ messages[i].tool_calls[1].id[1] = "forced"}

CallNames(calls) == {calls[i].name : i \in 1..Len(calls)}

\* C9 as stated: for a scenario containing "traffic" and "customer" the forced
\* calls hold a traffic call and a notify_customer call and are at most 3.
C9_TrafficAndCustomerForced ==
    \A r \in Runs :
        {"traffic", "customer"} \subseteq LowerText(state[r].scenario) =>
            \A i \in ForcedMessages(state[r].messages) :
                LET calls == state[r].messages[i].tool_calls IN
                /\ CallNames(calls) \cap {"check_traffic", "calculate_alternative_route"} # {}
                /\ "notify_customer" \in CallNames(calls)
                /\ Len(calls) <= 3

\* C10 as stated: a run in progress owns the ledger session: the steps it has
\* recorded so far stay in the ledger, in place (no other run's clear removes or
\* renumbers them), and the transcript a finished run is about to return holds
\* only steps that run appended.
C10_LedgerOwnedByRun ==
    \A r \in Runs :
        /\ pc[r] \in InProgress =>
               IsPrefix(state[r].reasoning_steps, reasoner.reasoning_steps)
        /\ pc[r] = "end" => \A i \in 1..Len(owner) : owner[i] = r

-----------------------------------------------------------------------------
(* Resolve calls made one after another on the same coordinator *)

\* a caller that awaits each resolve_scenario before it makes the next
SeqResolve(r, scenario, max_iterations) ==
    /\ \A q \in Runs \ {r} : pc[q] \notin InProgress
    /\ Resolve(r, scenario, max_iterations)

SeqScenarios == { {"parcel"}, {"traffic", "customer"} }

NextSeq ==
    \E r \in Runs :
        \/ \E s \in SeqScenarios : SeqResolve(r, s, 1)
        \/ CallModelBegin(r)
        \/ \E reply \in ConcReplies : CallModelResume(r, reply)
        \/ ToolsNode(r, ConcOutcomes)
        \/ AfterTools(r)
        \/ SynthesisBegin(r)
        \/ \E content \in ConcContents : SynthesisResume(r, content)
        \/ VerificationBegin(r)
        \/ \E text \in ConcTexts : VerificationResume(r, text)
        \/ \E content \in VerificationNonStrings : VerificationRaise(r, content)
        \/ Return(r)
        \/ Fault(r)

SpecSeq == Init /\ [][NextSeq]_vars

\* C11: when resolve calls are made one after another, the ledger is empty and
\* its counter is 0 when a run's first deciding step begins; the transcript a
\* run is about to return, and the one it returned, hold only steps that run
\* appended and start at step number 1.
C11_SequentialRunsStartClean ==
    \A r \in Runs :
        /\ (pc[r] = "call_model" /\ state[r].messages = <<>>) =>
               /\ reasoner.reasoning_steps = <<>>
               /\ reasoner.current_step = 0
        /\ pc[r] = "end" =>
               /\ \A i \in 1..Len(owner) : owner[i] = r
               /\ reasoner.reasoning_steps # <<>>
               /\ \A i \in 1..Len(reasoner.reasoning_steps) :
                      reasoner.reasoning_steps[i].step_number = i
        /\ pc[r] = "returned" =>
               /\ result[r][1].reasoning_steps # <<>>
               /\ \A i \in 1..Len(result[r][1].reasoning_steps) :
                      result[r][1].reasoning_steps[i].step_number = i

\* a second run is at its first deciding step after a first run returned a
\* transcript of several steps
C11_Witness ==
    \E r, q \in Runs :
        /\ r # q
        /\ pc[q] = "returned"
        /\ Len(result[q][1].reasoning_steps) >= 4
        /\ pc[r] = "call_model"
        /\ state[r].messages = <<>>

\* C12 as stated: every call of clear_reasoning that empties the ledger leaves
\* zero steps and counter 0 and sets a session identifier different from the
\* one the ledger had before the call, also within the clock second of the
\* ledger's creation or of an earlier clear.
C12_ClearGivesFreshSession ==
    [][(reasoner.reasoning_steps # <<>> /\ reasoner'.reasoning_steps = <<>>) =>
           /\ reasoner'.current_step = 0
           /\ reasoner'.reasoning_session_id # reasoner.reasoning_session_id]_vars

-----------------------------------------------------------------------------
(* One resolve call whose oracle consultations all return an answer *)

NextAnswered ==
    \/ \E s \in Scenarios, m \in 0..MaxIter : Resolve("run1", s, m)
    \/ CallModelBegin("run1")
    \/ \E reply \in OracleReplies : CallModelResume("run1", reply)
    \/ ToolsNode("run1", WorkflowOutcomes)
    \/ AfterTools("run1")
    \/ SynthesisBegin("run1")
    \/ \E content \in SynthesisContents : SynthesisResume("run1", content)
    \/ VerificationBegin("run1")
    \/ \E text \in VerificationTexts : VerificationResume("run1", text)
    \/ \E content \in VerificationNonStrings : VerificationRaise("run1", content)
    \/ Return("run1")

SpecAnswered == Init /\ [][NextAnswered]_vars

\* C13 as stated: a malformed answer of the oracle is never fatal. When every
\* consultation returns an answer (in deciding a value that is no message; in
\* synthesizing a content without braces, with undecodable braces or that is no
\* string; in verifying a text without a confidence pattern or a content that
\* is no string), the run does not fail and returns success=true.
C13_MalformedAnswersNeverFatal ==
    \A r \in Runs :
        /\ pc[r] # "failed"
        /\ pc[r] = "returned" => result[r][1].success

-----------------------------------------------------------------------------
(* The confidence extraction applied to response texts *)

\* the tokens response texts are made of
ConfidenceAlphabet == {"confidence", ":", "1", "5", ".", "%", "w"}

ResponseTexts == UNION {[1..n -> ConfidenceAlphabet] : n \in 0..MaxTextLen}

\* a response text is at hand
InitConfidence ==
    /\ InitProgram
    /\ \E text \in ResponseTexts : probe = [op |-> "text", text |-> text, value |-> 0]

\* the call of _extract_confidence_from_response on the text
ExtractConfidenceCall ==
    /\ probe.op = "text"
    /\ probe' = [probe EXCEPT !.op = "extract_confidence",
                              !.value = extract_confidence_from_response(probe.text)]
    /\ UNCHANGED <<ledgerVars, now, runVars, spy, registry, coordinator>>

NextConfidence == ExtractConfidenceCall

SpecConfidence == InitConfidence /\ [][NextConfidence]_vars

\* The patterns of the claim, read off the text from the right: a percent sign
\* straight after a digit, with the digits that precede it; the word confidence
\* followed by separators and then digits or dots.
PercentSigns(text) ==
    {j \in 2..Len(text) : text[j] = "%" /\ text[j - 1] \in Digits}

DigitsBefore(text, j) ==
    LET first == Min({i \in 1..(j - 1) : \A k \in i..(j - 1) : text[k] \in Digits})
    IN  SubSeq(text, first, j - 1)

LabelStarts(text) ==
    {i \in 1..Len(text) :
        /\ text[i] \in ConfidenceWords
        /\ \E j \in (i + 2)..Len(text) :
              /\ \A k \in (i + 1)..(j - 1) : text[k] \in Separators
              /\ text[j] \in NumberChars}

\* the digits and dots that follow the first label
LabeledRun(text) ==
    LET i == Min(LabelStarts(text))
        j == Min({k \in (i + 1)..Len(text) : text[k] \notin Separators})
        last == CHOOSE e \in j..Len(text) :
                    /\ \A k \in j..e : text[k] \in NumberChars
                    /\ \A k \in (e + 1)..Len(text) :
                          \E m \in j..k : text[m] \notin NumberChars
    IN  SubSeq(text, j, last)

\* a run of digits and dots is a decimal when it has at most one dot and a digit
IsDecimal(run) ==
    /\ Cardinality({i \in 1..Len(run) : run[i] = "."}) <= 1
    /\ \E i \in 1..Len(run) : run[i] \in Digits

\* its value in hundredths
DecimalValue(run) ==
    LET whole == SelectSeq(SubSeq(run, 1,
                     Min({i \in 1..(Len(run) + 1) : i > Len(run) \/ run[i] = "."}) - 1),
                     LAMBDA c : TRUE)
        rest == SubSeq(run, Len(whole) + 2, Len(run))
        tenths == IF Len(rest) >= 1 THEN DigitVal(rest[1]) ELSE 0
        hundredths == IF Len(rest) >= 2 THEN DigitVal(rest[2]) ELSE 0
    IN  100 * DigitsValue(whole) + 10 * tenths + hundredths

HasLabeledDecimal(text) ==
    LabelStarts(text) # {} /\ IsDecimal(LabeledRun(text))

\* C14 as stated: a text with a percentage N% yields N/100, also when a labeled
\* decimal is present; otherwise a text with a labeled decimal "confidence: d"
\* yields d; a text with neither yields 0.8.
C14_ExtractionPriority ==
    probe.op = "extract_confidence" =>
        IF PercentSigns(probe.text) # {}
        THEN probe.value = DigitsValue(DigitsBefore(probe.text, Min(PercentSigns(probe.text))))
        ELSE IF HasLabeledDecimal(probe.text)
        THEN probe.value = DecimalValue(LabeledRun(probe.text))
        ELSE probe.value = DefaultConfidence

\* C14, amended: a text with a percentage N% yields N/100, also when a labeled
\* decimal is present; otherwise a text whose first label "confidence:" is
\* followed by a well-formed decimal d yields min(d, 1.0); every other text
\* yields 0.8.
C14_ExtractionPriorityClamped ==
    probe.op = "extract_confidence" =>
        IF PercentSigns(probe.text) # {}
        THEN probe.value = DigitsValue(DigitsBefore(probe.text, Min(PercentSigns(probe.text))))
        ELSE IF HasLabeledDecimal(probe.text)
        THEN probe.value = Min({DecimalValue(LabeledRun(probe.text)), 100})
        ELSE probe.value = DefaultConfidence

\* a text holding a labeled decimal and, after it, a percentage, which wins
C14_Witness ==
    /\ probe.op = "extract_confidence"
    /\ HasLabeledDecimal(probe.text)
    /\ PercentSigns(probe.text) # {}
    /\ Min(LabelStarts(probe.text)) < Min(PercentSigns(probe.text))
    /\ probe.value = 5

-----------------------------------------------------------------------------
(* Properties of the tool boundary and the registry *)

RequiredMissing(tool, kwargs) ==
    LET Req == required_parameters(tool)
    IN  {p \in {Req[i] : i \in 1..Len(Req)} :
            p \notin DOMAIN kwargs \/ kwargs[p] = "null"}

\* C15: when execute raises on arguments that passed validation, safe_execute
\* does not propagate the fault: it returns a ToolResult with success=false,
\* status FAILURE, the tool's own name, and data holding the error message and
\* the error class.
C15_ExecuteFaultContained ==
    (spy.called /\ spy.raises /\ RequiredMissing(spy.tool_name, spy.kwargs) = {}) =>
        /\ spy.result # <<>>
        /\ spy.result[1].success = FALSE
        /\ spy.result[1].status = "FAILURE"
        /\ spy.result[1].tool_name = spy.tool_name
        /\ {"error", "error_type"} \subseteq spy.result[1].data
        /\ spy.execute_calls = 1

\* a call on full arguments, one of them optional, whose execute raised
C15_Witness ==
    /\ spy.called
    /\ spy.raises
    /\ RequiredMissing(spy.tool_name, spy.kwargs) = {}
    /\ "priority_level" \in DOMAIN spy.kwargs
    /\ spy.tool_name = "check_traffic"

\* The registry used by a caller that registers tools before and between
\* resolve calls
RegisterBetweenRuns ==
    /\ \A r \in Runs : pc[r] \notin InProgress
    /\ RegisterCustomTool

NextRegistry ==
    \/ RegisterBetweenRuns
    \/ GetCoordinator
    \/ \E r \in Runs :
          \/ \E s \in SeqScenarios : SeqResolve(r, s, 1)
          \/ CallModelBegin(r)
          \/ Fault(r)

SpecRegistry == Init /\ [][NextRegistry]_vars

\* C16 as stated: registering a tool leaves every entry that existed before
\* unchanged, also when the new tool's name is that of a registered tool.
C16_RegisterKeepsEntries ==
    [][\A n \in DOMAIN registry :
          n \in DOMAIN registry' /\ registry'[n] = registry[n]]_vars

\* C17 as stated: the catalog presented to the oracle when a run's first
\* deciding step executes names exactly the tools the registry holds at the
\* start of that run (no registration happens between the start and that
\* step), so a tool registered after the coordinator was constructed and
\* before the resolve call is in the catalog.
C17_CatalogIsRegistryAtRunStart ==
    [][\A r \in Runs :
          (pc[r] = "call_model" /\ state[r].messages = <<>>
              /\ pc'[r] = "call_model_await") =>
                 DOMAIN state'[r].messages[1].content.catalog = DOMAIN registry]_vars

\* C18: get_tool returns the instance registered under the name, None for a
\* name that is not registered and never a default tool; is_tool_available is
\* true exactly when get_tool is not None.
C18_LookupTotal ==
    /\ \A n \in LookupNames :
          /\ n \in ToolNames => get_tool(registry, n) # <<>>
          /\ is_tool_available(registry, n) <=> get_tool(registry, n) # <<>>
    /\ get_tool(registry, "no_such_tool") = <<>>
    /\ probe.op = "none" => get_tool(registry, "weather_lookup") = <<>>
    /\ probe.op = "register_custom_tool" =>
          get_tool(registry, probe.name) = <<probe.instance>>

\* a new name was registered, a startup tool is untouched, and an unknown name
\* is looked up
C18_Witness ==
    /\ probe.op = "register_custom_tool"
    /\ probe.name = "weather_lookup"
    /\ get_tool(registry, "weather_lookup") = <<"custom_a">>
    /\ get_tool(registry, "check_traffic") = <<"builtin">>
    /\ ~is_tool_available(registry, "no_such_tool")

-----------------------------------------------------------------------------
(* ToolResult documents written as JSON and read back *)

\* the ToolResult values a tool can hand back
ToolResults ==
    [success : BOOLEAN, data : {{}, {"payload"}},
     message : {[text |-> "completed", names |-> <<>>]},
     execution_time_ms : {0, 500}, status : ToolStatus, tool_name : ToolNames,
     confidence_score : {NoConfidence, <<0>>, <<85>>}]

\* a ToolResult is at hand
InitRoundTrip ==
    /\ InitProgram
    /\ \E res \in ToolResults : probe = [op |-> "result", input |-> res, output |-> <<>>]

\* json.dumps(res.to_dict()) in the tool wrapper, json.loads in _after_tools_node
RoundTripCall ==
    /\ probe.op = "result"
    /\ probe' = [probe EXCEPT
                     !.op = "round_trip",
                     !.output = json_loads(json_dumps(to_dict(probe.input))).doc]
    /\ UNCHANGED <<ledgerVars, now, runVars, spy, registry, coordinator>>

NextRoundTrip == RoundTripCall

SpecRoundTrip == InitRoundTrip /\ [][NextRoundTrip]_vars

\* C19: writing a ToolResult with to_dict and JSON and reading it back keeps
\* success, status (as the member's value), tool_name and confidence_score,
\* also when confidence_score is absent and for each of the four statuses.
C19_RoundTripKeepsFields ==
    probe.op = "round_trip" =>
        /\ probe.output # <<>>
        /\ probe.output[1].success = probe.input.success
        /\ <<probe.input.status, probe.output[1].status>> \in
               {<<"SUCCESS", "success">>, <<"FAILURE", "failure">>,
                <<"PARTIAL", "partial">>, <<"TIMEOUT", "timeout">>}
        /\ probe.output[1].tool_name = probe.input.tool_name
        /\ probe.output[1].confidence_score = probe.input.confidence_score

\* a TIMEOUT result without a confidence score was written and read back
C19_Witness ==
    /\ probe.op = "round_trip"
    /\ probe.input.status = "TIMEOUT"
    /\ probe.input.confidence_score = NoConfidence
    /\ probe.output # <<>>
    /\ probe.output[1].status = "timeout"

-----------------------------------------------------------------------------
(* Termination of a run *)

\* One resolve call in which every step that can be taken is eventually taken:
\* each oracle consultation and each tool invocation returns (with an answer or
\* with a fault) and the event loop resumes the run.
SpecLive == Spec /\ WF_vars(Next)

LoopNodes == {"call_model", "call_model_await", "tools", "after_tools"}

Finished == {"returned", "failed"}

\* invoking_tools passes begun so far
ToolPasses(r) ==
    state[r].current_iteration + (IF pc[r] \in {"tools", "after_tools"} THEN 1 ELSE 0)

CeilingReached(st) == st.current_iteration >= st.max_iterations

ThresholdReached(st) == Cardinality(UniqueTools(st.gathered_data)) >= ToolThreshold

\* C20 as stated, the part on the loop: after a completed invoking_tools pass
\* the deciding/tools loop is left for synthesizing only when the ceiling or
\* the 3-distinct-tool threshold is reached.
C20_OnlyCeilingOrThresholdEndLoop ==
    [][\A r \in Runs :
          (pc[r] \in LoopNodes /\ state[r].current_iteration >= 1
              /\ pc'[r] = "synthesis") =>
                 CeilingReached(state'[r]) \/ ThresholdReached(state'[r])]_vars

\* C20, amended: every run started reaches the done or the failure result; the
\* number of invoking_tools passes is at most max(1, max_iterations); the loop
\* is left after bookkeeping exactly when the ceiling or the threshold is
\* reached, and otherwise only by a deciding answer without tool requests or by
\* a fault.
C20_RunTerminates ==
    /\ <>(pc["run1"] \in Finished)
    /\ [](\A r \in Runs :
             ToolPasses(r) <= (IF state[r].max_iterations > 1
                               THEN state[r].max_iterations ELSE 1))
    /\ [][\A r \in Runs :
             /\ (pc[r] = "after_tools" /\ pc'[r] = "synthesis") =>
                    CeilingReached(state'[r]) \/ ThresholdReached(state'[r])
             /\ (pc[r] = "after_tools" /\ pc'[r] = "call_model") =>
                    ~CeilingReached(state'[r]) /\ ~ThresholdReached(state'[r])
             /\ (pc[r] \in LoopNodes /\ pc'[r] \notin LoopNodes) =>
                    \/ pc[r] = "after_tools" /\ pc'[r] = "synthesis"
                    \/ /\ pc[r] = "call_model_await"
                       /\ pc'[r] = "synthesis"
                       /\ state'[r].messages[Len(state'[r].messages)].type = "ai"
                       /\ state'[r].messages[Len(state'[r].messages)].tool_calls = <<>>
                    \/ pc'[r] = "failed"]_vars

\* a run with ceiling 2 that made two invoking_tools passes has returned
C20_Witness ==
    /\ pc["run1"] = "returned"
    /\ state["run1"].max_iterations = 2
    /\ state["run1"].current_iteration = 2
    /\ result["run1"][1].success

-----------------------------------------------------------------------------
(* Bookkeeping after a tools pass *)

\* C21 as stated: a GatheredDataEntry is appended only when the tool's output
\* was parsed as structured data. A call whose output failed to parse (and was
\* wrapped as a raw string) has a ToolCallRecord but no GatheredDataEntry, so
\* it does not count toward the distinct-tool threshold.
C21_GatheredOnlyWhenParsed ==
    \A r \in Runs :
        /\ \A i \in 1..Len(state[r].gathered_data) :
               state[r].gathered_data[i].result.kind = "dict"
        /\ UniqueTools(state[r].gathered_data) \subseteq
               {state[r].gathered_data[i].tool_name :
                    i \in {j \in 1..Len(state[r].gathered_data) :
                               state[r].gathered_data[j].result.kind = "dict"}}

\* the bookkeeping of run r has just finished: nothing was appended to the
\* ledger or to the transcript since
JustBookkept(r) ==
    /\ last_node[r] = "after_tools"
    /\ pc[r] \in {"call_model", "synthesis"}

\* success of the result the tools node returned for a call, <<>> when the
\* call has no tool-result turn or its content is no JSON document
ReturnedSuccess(messages, call) ==
    LET tool_msg == FindToolMessage(messages, call.id) IN
    IF tool_msg # <<>> /\ json_loads(tool_msg[1].content).ok
    THEN <<json_loads(tool_msg[1].content).doc[1].success>>
    ELSE <<>>

\* C22 as stated: for every dispatched call, the EXECUTION step appended by
\* the bookkeeping has confidence 0.9 when the tool's result has success=true
\* and confidence 0.5 when it has success=false.
C22_ExecutionConfidenceFollowsSuccess ==
    \A r \in Runs :
        JustBookkept(r) =>
            LET calls == LastCalls(state[r].messages)
                steps == reasoner.reasoning_steps
            IN  \A i \in 1..Len(calls) :
                    LET step == steps[Len(steps) - Len(calls) + i]
                        ok == ReturnedSuccess(state[r].messages, calls[i])
                    IN  /\ step.step_type = "execution"
                        /\ ok = <<TRUE>> => step.confidence = 90
                        /\ ok = <<FALSE>> => step.confidence = 50

\* the tool-result turns of a transcript that answer call id
ToolTurns(messages, id) ==
    {i \in 1..Len(messages) :
         messages[i].type = "tool" /\ messages[i].tool_call_id = id}

\* C23 as stated: within one run the call ids of the ToolCallRecords are
\* pairwise distinct and each matches at most one tool-result turn of the
\* transcript, for every oracle, also one that reuses a call id in a later
\* iteration and after a forced-call pass.
C23_CallIdsUnique ==
    \A r \in Runs :
        LET made == state[r].tool_calls_made IN
        /\ \A i, j \in 1..Len(made) :
               made[i].tool_call_id = made[j].tool_call_id => i = j
        /\ \A i \in 1..Len(made) :
               Cardinality(ToolTurns(state[r].messages, made[i].tool_call_id)) <= 1

-----------------------------------------------------------------------------
(* One resolve call whose tool executions complete in any order *)

\* The tools node when the executions of one response complete in any order:
\* one ToolMessage per call of the last AIMessage, appended to the transcript
\* in the order perm of completion.
ToolsNodeAnyOrder(r, Outs) ==
    /\ pc[r] = "tools"
    /\ LET calls == LastAI(state[r].messages)[1].tool_calls IN
       \E outcomes \in [1..Len(calls) -> Outs] :
       \E perm \in Permutations(1..Len(calls)) :
          LET replies == [i \in 1..Len(calls) |->
                            DispatchCall(coordinator[1].tools, calls[perm[i]],
                                         outcomes[perm[i]])]
          IN  state' = [state EXCEPT ![r].messages = @ \o replies]
    /\ pc' = [pc EXCEPT ![r] = "after_tools"]
    /\ last_node' = [last_node EXCEPT ![r] = "tools"]
    /\ UNCHANGED <<reasoner, owner, now, result, spy, envVars>>

NextAnyOrder ==
    \/ \E s \in Scenarios, m \in 0..MaxIter : Resolve("run1", s, m)
    \/ CallModelBegin("run1")
    \/ \E reply \in OracleReplies : CallModelResume("run1", reply)
    \/ ToolsNodeAnyOrder("run1", WorkflowOutcomes)
    \/ AfterTools("run1")
    \/ SynthesisBegin("run1")
    \/ \E content \in SynthesisContents : SynthesisResume("run1", content)
    \/ VerificationBegin("run1")
    \/ \E text \in VerificationTexts : VerificationResume("run1", text)
    \/ \E content \in VerificationNonStrings : VerificationRaise("run1", content)
    \/ Return("run1")
    \/ Fault("run1")

SpecAnyOrder == Init /\ [][NextAnyOrder]_vars

\* the last n elements of a sequence
LastN(s, n) == SubSeq(s, Len(s) - n + 1, Len(s))

\* when the bookkeeping of one oracle response has finished, the
\* ToolCallRecords, the GatheredDataEntries and the EXECUTION steps it appended
\* are the last ones of their sequences and name the calls in the order the
\* oracle requested them, each entry holding the result returned for its call
BookkeepingInRequestOrder(r) ==
    LET calls == LastCalls(state[r].messages)
        n == Len(calls)
        made == LastN(state[r].tool_calls_made, n)
        gathered == LastN(state[r].gathered_data, n)
        steps == LastN(reasoner.reasoning_steps, n)
    IN  \A i \in 1..n :
            /\ made[i] = [tool_name |-> calls[i].name, args |-> calls[i].args,
                          tool_call_id |-> calls[i].id]
            /\ gathered[i].tool_name = calls[i].name
            /\ \A ok \in BOOLEAN :
                   ReturnedSuccess(state[r].messages, calls[i]) = <<ok>> =>
                       gathered[i].result = [kind |-> "dict", success |-> ok]
            /\ steps[i].step_type = "execution"
            /\ steps[i].context = <<calls[i].name>>

\* every call requested so far has its ToolCallRecord
AllCallsRecorded(r) ==
    \A k \in 1..Len(state[r].messages) :
        state[r].messages[k].type = "ai" =>
            \A i \in 1..Len(state[r].messages[k].tool_calls) :
                \E j \in 1..Len(state[r].tool_calls_made) :
                    state[r].tool_calls_made[j].tool_call_id =
                        state[r].messages[k].tool_calls[i].id

\* C24: for the calls of one oracle response, whatever order the executions
\* complete in, the ToolCallRecords, GatheredDataEntries and EXECUTION steps
\* of the following bookkeeping appear in the order the oracle requested the
\* calls, and all are recorded before deciding consults the oracle again.
C24_BookkeepingInRequestOrder ==
    \A r \in Runs :
        /\ JustBookkept(r) => BookkeepingInRequestOrder(r)
        /\ pc[r] = "call_model_await" => AllCallsRecorded(r)

\* the results of a response with two calls reached the transcript in the
\* reverse order, were bookkept, and deciding consults the oracle again
C24_Witness ==
    \E r \in Runs :
        /\ pc[r] = "call_model_await"
        /\ state[r].current_iteration = 1
        /\ LET calls == LastCalls(state[r].messages)
               m == state[r].messages
           IN  /\ Len(calls) = 2
               /\ m[Len(m)].type = "tool"
               /\ m[Len(m)].tool_call_id = calls[1].id
               /\ m[Len(m) - 1].tool_call_id = calls[2].id

-----------------------------------------------------------------------------
(* The phases after the loop *)

\* the phases of a run, by the position of its workflow
Deciding == {"call_model", "call_model_await"}
InvokingTools == {"tools"}
PostToolBookkeeping == {"after_tools"}
Synthesizing == {"synthesis", "synthesis_await"}
Verifying == {"verification", "verification_await"}
Done == {"end", "returned"}

\* C25: solution_plan is null in deciding, invoking_tools and
\* post_tool_bookkeeping and non-null in verifying and done; it is assigned
\* exactly once in a run, by synthesis.
C25_PlanAssignedOnceBySynthesis ==
    /\ [](\A r \in Runs :
            /\ pc[r] \in Deciding \cup InvokingTools \cup PostToolBookkeeping =>
                   state[r].solution_plan = NoPlan
            /\ pc[r] \in Verifying \cup Done => state[r].solution_plan # NoPlan)
    /\ [][\A r \in Runs :
            state[r].solution_plan' # state[r].solution_plan =>
                /\ pc[r] = "synthesis_await"
                /\ pc'[r] = "verification"
                /\ state[r].solution_plan = NoPlan
                /\ state[r].solution_plan' # NoPlan]_vars

\* a run is done with the plan decoded from the synthesis answer
C25_Witness ==
    \E r \in Runs :
        /\ pc[r] \in Done
        /\ state[r].current_iteration > 0
        /\ state[r].solution_plan = <<"decoded_plan">>

\* the last turn of a transcript
LastTurn(messages) == messages[Len(messages)]

\* C26: when deciding gets an answer without tool requests and the iteration
\* counter is above 0, the next phase is synthesizing: no forced call is made
\* (the answer is the only turn appended) and invoking_tools is not entered.
C26_NoRequestsAfterFirstPassSynthesizes ==
    [][\A r \in Runs :
          (/\ pc[r] = "call_model_await"
           /\ state[r].current_iteration > 0
           /\ pc'[r] \notin {"call_model_await", "failed"}) =>
              /\ Len(state[r].messages') = Len(state[r].messages) + 1
              /\ LastTurn(state[r].messages').type = "ai"
              /\ LastTurn(state[r].messages').tool_calls = <<>> =>
                     pc'[r] = "synthesis"
              /\ pc'[r] = "tools" =>
                     \A i \in 1..Len(LastTurn(state[r].messages').tool_calls) :
                         LastTurn(state[r].messages').tool_calls[i].id[1] # "forced"]_vars

\* after a tools pass, in a scenario that forces calls at iteration 0, an
\* answer without requests took the run to synthesizing
C26_Witness ==
    \E r \in Runs :
        /\ pc[r] = "synthesis"
        /\ last_node[r] = "call_model"
        /\ state[r].current_iteration > 0
        /\ create_forced_tool_calls(state[r].scenario, ToolNames) # <<>>

\* C27: once a run is in synthesizing it proceeds only to verifying and then to
\* done (or ends with a failure result): synthesizing and verifying are each
\* left once and never re-entered, deciding and invoking_tools are never
\* re-entered, and status changes from processing to completed only in
\* verifying.
C27_AfterLoopStraightToDone ==
    [][\A r \in Runs :
          /\ pc[r] \in Synthesizing =>
                 pc'[r] \in Synthesizing \cup {"verification", "failed"}
          /\ pc[r] = "synthesis_await" => pc'[r] # "synthesis"
          /\ pc[r] \in Verifying =>
                 pc'[r] \in Verifying \cup {"end", "failed"}
          /\ pc[r] = "verification_await" => pc'[r] # "verification"
          /\ pc[r] \in Done => pc'[r] \in Done
          /\ pc[r] = "returned" => pc'[r] = "returned"
          /\ state[r].status' # state[r].status =>
                 \/ pc[r] = "idle" /\ state[r].status' = "processing"
                 \/ /\ pc[r] = "verification_await"
                    /\ pc'[r] = "end"
                    /\ state[r].status = "processing"
                    /\ state[r].status' = "completed"]_vars

\* a run went through the loop, synthesizing and verifying and has returned
C27_Witness ==
    \E r \in Runs :
        /\ pc[r] = "returned"
        /\ state[r].status = "completed"
        /\ state[r].current_iteration > 0
        /\ state[r].solution_plan # NoPlan

\* the step types of a ledger are ANALYSIS, PLANNING, zero or more EXECUTION,
\* one SYNTHESIS, one VERIFICATION and one DECISION, numbered from 1
SuccessfulRunLedger(steps) ==
    LET n == Len(steps) IN
    /\ n >= 5
    /\ \A i \in 1..n :
           /\ steps[i].step_number = i
           /\ steps[i].step_type =
                  CASE i = 1 -> "analysis"
                    [] i = 2 -> "planning"
                    [] i = n - 2 /\ i > 2 -> "synthesis"
                    [] i = n - 1 /\ i > 2 -> "verification"
                    [] i = n /\ i > 2 -> "decision"
                    [] OTHER -> "execution"

\* C28: in a single successful run that is not interleaved with another one,
\* the ledger holds ANALYSIS (step 1), PLANNING (step 2), zero or more
\* EXECUTION, exactly one SYNTHESIS, exactly one VERIFICATION and exactly one
\* DECISION, in that order; ANALYSIS and PLANNING are recorded once even when
\* deciding is entered several times.
C28_LedgerStepOrder ==
    \A r \in Runs :
        pc[r] \in Done =>
            /\ SuccessfulRunLedger(reasoner.reasoning_steps)
            /\ pc[r] = "returned" =>
                   /\ result[r][1].success
                   /\ result[r][1].reasoning_steps = reasoner.reasoning_steps

\* a run that entered deciding three times and recorded two executions has
\* returned
C28_Witness ==
    \E r \in Runs :
        /\ pc[r] = "returned"
        /\ state[r].current_iteration = 2
        /\ Cardinality({i \in 1..Len(state[r].messages) :
                            state[r].messages[i].type = "ai"
                            /\ state[r].messages[i].tool_calls = <<>>}) = 3
        /\ Len(reasoner.reasoning_steps) >= 7

-----------------------------------------------------------------------------
(* Append-only sequences *)

\* C29: the ledger is append-only between clears. Every step of the ledger's
\* operations either empties it (clear_reasoning) or leaves the previous
\* sequence as a prefix of the new one, with at most one step added and every
\* field of the earlier steps unchanged.
C29_LedgerAppendOnly ==
    [][reasoner'.reasoning_steps # <<>> =>
           /\ IsPrefix(reasoner.reasoning_steps, reasoner'.reasoning_steps)
           /\ Len(reasoner'.reasoning_steps) <= Len(reasoner.reasoning_steps) + 1
           /\ \A i \in 1..Len(reasoner.reasoning_steps) :
                  reasoner'.reasoning_steps[i] = reasoner.reasoning_steps[i]]_vars

\* the ledger was cleared at clock second 1 and has been appended to up to the
\* bound since, the last step being an execution
C29_Witness ==
    /\ reasoner.reasoning_session_id = 1
    /\ Len(reasoner.reasoning_steps) = MaxSteps
    /\ reasoner.reasoning_steps[MaxSteps].step_type = "execution"

\* the positions of the system and human turns of a transcript
SeedTurns(messages) ==
    {i \in 1..Len(messages) : messages[i].type \in {"system", "human"}}

\* C30: the transcript of a run is append-only. It starts empty, is seeded
\* exactly once with a system turn followed by a human turn, and after every
\* later step the previous transcript is a prefix of the new one.
C30_TranscriptAppendOnly ==
    /\ [](\A r \in Runs :
            /\ (pc[r] = "call_model" /\ last_node[r] = "start") =>
                   state[r].messages = <<>>
            /\ state[r].messages # <<>> =>
                   /\ Len(state[r].messages) >= 2
                   /\ state[r].messages[1].type = "system"
                   /\ state[r].messages[2].type = "human"
                   /\ SeedTurns(state[r].messages) = {1, 2})
    /\ [][\A r \in Runs :
            pc[r] # "idle" =>
                /\ IsPrefix(state[r].messages, state[r].messages')
                /\ (state[r].messages = <<>> /\ state[r].messages' # <<>>) =>
                       (pc[r] = "call_model" /\ Len(state[r].messages') = 2)]_vars

\* deciding was entered a second time with a transcript that holds the seed,
\* an answer with tool requests and the tool results
C30_Witness ==
    \E r \in Runs :
        /\ pc[r] = "call_model_await"
        /\ state[r].current_iteration = 1
        /\ Len(state[r].messages) >= 4
        /\ LastTurn(state[r].messages).type = "tool"

-----------------------------------------------------------------------------
(* One AgentState per resolve call *)

\* the fields of an AgentState that belong to its run alone
OwnFields(st) ==
    [messages |-> st.messages,
     tool_calls_made |-> st.tool_calls_made,
     gathered_data |-> st.gathered_data,
     current_iteration |-> st.current_iteration,
     solution_plan |-> st.solution_plan,
     confidence_score |-> st.confidence_score,
     status |-> st.status]

\* C31: when two resolve calls interleave at their suspension points, each has
\* its own AgentState. Every step is the step of one run, and it leaves the
\* other run's transcript, tool-call records, gathered data, iteration counter,
\* solution plan, confidence score and status unchanged.
C31_RunsDoNotShareState ==
    [][/\ Cardinality({r \in Runs : pc'[r] # pc[r]}) = 1
       /\ \A q \in Runs :
              pc'[q] = pc[q] => OwnFields(state[q]') = OwnFields(state[q])]_vars

\* both runs are under way and interleaved: run1 has finished verifying while
\* run2, started after run1's bookkeeping, waits for its tools
C31_Witness ==
    /\ pc["run1"] = "end"
    /\ state["run1"].current_iteration = 1
    /\ pc["run2"] = "tools"
    /\ state["run2"].current_iteration = 0
    /\ state["run2"].solution_plan = NoPlan
    /\ Len(state["run2"].messages) < Len(state["run1"].messages)

-----------------------------------------------------------------------------
(* The ledger summary: ChainOfThoughtReasoner.get_reasoning_summary *)

\* Python floats are IEEE-754 doubles. A double is kept here exactly, as
\* [h, e, d] standing for (h * 2^60 + e) / (d * 2^60): h/d is the decimal
\* value and e the distance of the double from it, in units of 1/(d * 2^60).
\* Pow2Mod(k, m) is 2^k modulo m, computed without leaving 32 bits.
RECURSIVE Pow2Mod(_, _)
Pow2Mod(k, m) ==
    IF k = 0 THEN 1 % m
    ELSE IF k >= 6 THEN (64 * Pow2Mod(k - 6, m)) % m
    ELSE (2 * Pow2Mod(k - 1, m)) % m

\* x >= 2^k for the exact value x = (h * 2^60 + e) / (d * 2^60)
AtLeastPow2(h, e, d, k) ==
    IF k >= 0
    THEN h > d * 2^k \/ (h = d * 2^k /\ e >= 0)
    ELSE h * 2^(-k) > d \/ (h * 2^(-k) = d /\ e >= 0)

\* the binary exponent k of a positive value: 2^k <= x < 2^(k+1); the values
\* met here lie between 2^-8 and 16
Binade(h, e, d) ==
    CHOOSE k \in -8..3 :
        AtLeastPow2(h, e, d, k) /\ ~AtLeastPow2(h, e, d, k + 1)

\* round-to-nearest, ties to even, of an exact value to the doubles of its
\* binade, which are the multiples of 2^(k-52)
RoundToDouble(h, e, d) ==
    IF h = 0 /\ e = 0 THEN [h |-> 0, e |-> 0, d |-> d]
    ELSE LET m == d * 2^(8 + Binade(h, e, d))
             r2 == (h * Pow2Mod(60, 2 * m) + e + 2 * m) % (2 * m)
             r == r2 % m
         IN  [h |-> h, d |-> d,
              e |-> IF 2 * r < m THEN e - r
                    ELSE IF 2 * r > m THEN e + (m - r)
                    ELSE IF r2 < m THEN e - r ELSE e + (m - r)]

\* the double of a confidence given in hundredths (the literal 0.85, or the
\* value parsed from the verifier's answer)
FloatOf(hundredths) == RoundToDouble(hundredths, 0, 100)

\* a + b of two doubles over the same d
FloatAdd(a, b) == RoundToDouble(a.h + b.h, a.e + b.e, a.d)

\* a / n for a positive int n
FloatDiv(a, n) == RoundToDouble(a.h, a.e, a.d * n)

\* a > the double of a literal given in hundredths, for a over d = 100 * n
FloatGreater(a, hundredths) ==
    LET n == a.d \div 100
        lit == FloatOf(hundredths)
    IN  a.h > lit.h * n \/ (a.h = lit.h * n /\ a.e > lit.e * n)

\* total_confidence after the loop over steps[1..n], starting from the int 0
RECURSIVE total_confidence(_, _)
total_confidence(steps, n) ==
    IF n = 0 THEN [h |-> 0, e |-> 0, d |-> 100]
    ELSE FloatAdd(total_confidence(steps, n - 1), FloatOf(steps[n].confidence))

\* avg_confidence: the total divided by the number of steps, 0 when empty
avg_confidence(L) ==
    IF L.reasoning_steps # <<>>
    THEN FloatDiv(total_confidence(L.reasoning_steps, Len(L.reasoning_steps)),
                  Len(L.reasoning_steps))
    ELSE [h |-> 0, e |-> 0, d |-> 100]

\* get_reasoning_summary: the fields session_id, total_steps and
\* reasoning_quality
get_reasoning_summary(L) ==
    [session_id |-> L.reasoning_session_id,
     total_steps |-> Len(L.reasoning_steps),
     reasoning_quality |->
         IF FloatGreater(avg_confidence(L), 80) THEN "high"
         ELSE IF FloatGreater(avg_confidence(L), 60) THEN "medium"
         ELSE "low"]

\* the recording methods of the ledger, as a caller may apply them
LedgerMethods ==
    {"analyze_scenario", "plan_tool_usage", "select_tool", "record_success",
     "record_failure", "synthesize_solution", "verify_solution",
     "decide_80", "decide_92", "decide_55"}

ApplyMethod(L, method) ==
    CASE method = "analyze_scenario" -> analyze_scenario(L)
      [] method = "plan_tool_usage" -> plan_tool_usage(L)
      [] method = "select_tool" -> select_tool(L)
      [] method = "record_success" ->
             record_tool_execution(L, "check_traffic", ResultObject(TRUE))
      [] method = "record_failure" ->
             record_tool_execution(L, "check_traffic", ResultObject(FALSE))
      [] method = "synthesize_solution" -> synthesize_solution(L)
      [] method = "verify_solution" -> verify_solution(L)
      [] method = "decide_80" -> make_final_decision(L, 80)
      [] method = "decide_92" -> make_final_decision(L, 92)
      [] OTHER -> make_final_decision(L, 55)

\* the ledger after the methods of a sequence were called on a new ledger
RECURSIVE LedgerAfter(_, _)
LedgerAfter(methods, n) ==
    IF n = 0 THEN NewReasoner(0)
    ELSE ApplyMethod(LedgerAfter(methods, n - 1), methods[n])

\* a ledger of up to MaxSteps steps, then one call of get_reasoning_summary
InitSummary ==
    /\ \E n \in 0..MaxSteps : \E methods \in [1..n -> LedgerMethods] :
           /\ reasoner = LedgerAfter(methods, n)
           /\ owner = [i \in 1..n |-> LedgerCaller]
    /\ now = 0
    /\ pc = [r \in Runs |-> "idle"]
    /\ state = [r \in Runs |-> IdleState]
    /\ result = [r \in Runs |-> <<>>]
    /\ last_node = [r \in Runs |-> "none"]
    /\ spy = NoSpy
    /\ registry = InitialRegistry
    /\ coordinator = <<>>
    /\ probe = [op |-> "ledger"]

SummaryCall ==
    /\ probe.op = "ledger"
    /\ probe' = [op |-> "get_reasoning_summary",
                 summary |-> get_reasoning_summary(reasoner)]
    /\ UNCHANGED <<ledgerVars, now, runVars, spy, registry, coordinator>>

NextSummary == SummaryCall

SpecSummary == InitSummary /\ [][NextSummary]_vars

\* the sum of the confidences of steps[1..n], in hundredths
RECURSIVE ConfidenceSum(_, _)
ConfidenceSum(steps, n) ==
    IF n = 0 THEN 0 ELSE ConfidenceSum(steps, n - 1) + steps[n].confidence

\* C32 as stated: the reasoning-quality label is determined by the mean
\* confidence m of the steps: "high" when m > 0.8, "medium" when
\* 0.6 < m <= 0.8, "low" when m <= 0.6; a mean of exactly 0.8 is "medium",
\* and an empty ledger has label "low".
C32_QualityLabelFollowsMean ==
    probe.op = "get_reasoning_summary" =>
        LET n == Len(reasoner.reasoning_steps)
            total == ConfidenceSum(reasoner.reasoning_steps, n)
        IN  probe.summary.reasoning_quality =
                IF n = 0 THEN "low"
                ELSE IF total > 80 * n THEN "high"
                ELSE IF total > 60 * n THEN "medium"
                ELSE "low"

-----------------------------------------------------------------------------
(* One resolve call whose tools node may leave calls unanswered *)

\* the subsequence of s at the positions in keep
RECURSIVE Restrict(_, _, _)
Restrict(s, keep, n) ==
    IF n = 0 THEN <<>>
    ELSE IF n \in keep THEN Append(Restrict(s, keep, n - 1), s[n])
    ELSE Restrict(s, keep, n - 1)

\* The tools node when only the calls at the positions in answered get a
\* tool-result turn. The tools node of the graph library answers every call;
\* the lookup of _after_tools_node is written for a call without an answer,
\* and this action lets that case happen.
ToolsNodeUnanswered(r, Outs) ==
    /\ pc[r] = "tools"
    /\ LET calls == LastAI(state[r].messages)[1].tool_calls IN
       \E outcomes \in [1..Len(calls) -> Outs] :
       \E answered \in SUBSET (1..Len(calls)) :
          LET replies == [i \in 1..Len(calls) |->
                            DispatchCall(coordinator[1].tools, calls[i], outcomes[i])]
          IN  state' = [state EXCEPT ![r].messages =
                            @ \o Restrict(replies, answered, Len(calls))]
    /\ pc' = [pc EXCEPT ![r] = "after_tools"]
    /\ last_node' = [last_node EXCEPT ![r] = "tools"]
    /\ UNCHANGED <<reasoner, owner, now, result, spy, envVars>>

NextUnanswered ==
    \/ \E s \in Scenarios, m \in 0..MaxIter : Resolve("run1", s, m)
    \/ CallModelBegin("run1")
    \/ \E reply \in OracleReplies : CallModelResume("run1", reply)
    \/ ToolsNodeUnanswered("run1", WorkflowOutcomes)
    \/ AfterTools("run1")
    \/ SynthesisBegin("run1")
    \/ \E content \in SynthesisContents : SynthesisResume("run1", content)
    \/ VerificationBegin("run1")
    \/ \E text \in VerificationTexts : VerificationResume("run1", text)
    \/ \E content \in VerificationNonStrings : VerificationRaise("run1", content)
    \/ Return("run1")
    \/ Fault("run1")

SpecUnanswered == Init /\ [][NextUnanswered]_vars

\* the positions of the calls that have a tool-result turn in the transcript
AnsweredPositions(messages, calls) ==
    {i \in 1..Len(calls) : ToolTurns(messages, calls[i].id) # {}}

\* the tool names of a sequence of calls, records or entries
NamesOf(s) == [i \in 1..Len(s) |-> IF "name" \in DOMAIN s[i] THEN s[i].name
                                   ELSE s[i].tool_name]

\* C33: each bookkeeping pass appends exactly one ToolCallRecord per call of
\* the response (of the oracle, or forced) that triggered the pass; there are
\* never more GatheredDataEntries than ToolCallRecords; a call with no
\* matching tool-result turn gets a ToolCallRecord and no GatheredDataEntry.
C33_OneRecordPerCall ==
    /\ [](\A r \in Runs :
             Len(state[r].gathered_data) <= Len(state[r].tool_calls_made))
    /\ [][\A r \in Runs :
             (pc[r] = "after_tools" /\ pc'[r] # "after_tools") =>
                 LET calls == LastCalls(state[r].messages)
                     answered == Restrict(calls,
                                          AnsweredPositions(state[r].messages, calls),
                                          Len(calls))
                 IN  /\ state[r].tool_calls_made' =
                            state[r].tool_calls_made \o
                                [i \in 1..Len(calls) |->
                                     [tool_name |-> calls[i].name,
                                      args |-> calls[i].args,
                                      tool_call_id |-> calls[i].id]]
                     /\ IsPrefix(state[r].gathered_data, state[r].gathered_data')
                     /\ NamesOf(state[r].gathered_data') =
                            NamesOf(state[r].gathered_data) \o NamesOf(answered)]_vars

\* a forced pass of three calls of which only the second was answered has
\* been bookkept: three records, one entry
C33_Witness ==
    \E r \in Runs :
        /\ JustBookkept(r)
        /\ state[r].current_iteration = 1
        /\ Len(state[r].tool_calls_made) = 3
        /\ state[r].tool_calls_made[1].tool_call_id[1] = "forced"
        /\ NamesOf(state[r].gathered_data) = <<state[r].tool_calls_made[2].tool_name>>

-----------------------------------------------------------------------------
(* Counts and metrics of a run *)

\* the number of EXECUTION steps of a ledger
ExecutionSteps(L) ==
    Cardinality({i \in 1..Len(L.reasoning_steps) :
                     L.reasoning_steps[i].step_type = "execution"})

\* C34: in a single run, after every bookkeeping pass the ledger holds as many
\* EXECUTION steps as the run has ToolCallRecords; in a successful result
\* metrics.tools_called is the length of tools_used and
\* metrics.total_reasoning_steps is tools_called + 5.
C34_ExecutionStepsMatchRecords ==
    \A r \in Runs :
        /\ pc[r] \notin {"idle", "failed"} =>
               ExecutionSteps(reasoner) = Len(state[r].tool_calls_made)
        /\ (pc[r] = "returned" /\ result[r][1].success) =>
               /\ result[r][1].metrics.tools_called = Len(result[r][1].tools_used)
               /\ result[r][1].metrics.tools_called = Len(state[r].tool_calls_made)
               /\ result[r][1].metrics.total_reasoning_steps =
                      result[r][1].metrics.tools_called + 5

\* a successful result of a run with two passes, one of them with a failed
\* call: three tools called, eight reasoning steps
C34_Witness ==
    \E r \in Runs :
        /\ pc[r] = "returned"
        /\ result[r][1].success
        /\ result[r][1].metrics.iterations = 2
        /\ result[r][1].metrics.tools_called = 3
        /\ result[r][1].metrics.total_reasoning_steps = 8
        /\ \E i \in 1..Len(state[r].gathered_data) :
               ~state[r].gathered_data[i].result.success

\* C35: a call whose ToolResult has success=false (a parameter-validation
\* failure or a caught execution fault) still gets a GatheredDataEntry under
\* its tool name and counts toward the threshold: after a pass that leaves
\* entries of three different tools, failed or not, the run is in synthesizing.
C35_FailedCallsCountTowardThreshold ==
    \A r \in Runs :
        JustBookkept(r) =>
            LET calls == LastCalls(state[r].messages)
                gathered == LastN(state[r].gathered_data, Len(calls))
            IN  /\ \A i \in 1..Len(calls) :
                       ReturnedSuccess(state[r].messages, calls[i]) = <<FALSE>> =>
                           gathered[i] = [tool_name |-> calls[i].name,
                                          result |-> [kind |-> "dict",
                                                      success |-> FALSE]]
                /\ Cardinality({state[r].gathered_data[i].tool_name :
                                    i \in 1..Len(state[r].gathered_data)}) >= 3 =>
                       pc[r] = "synthesis"

\* one pass of three failed calls to three different tools, below the
\* ceiling, sent the run to synthesizing
C35_Witness ==
    \E r \in Runs :
        /\ JustBookkept(r)
        /\ pc[r] = "synthesis"
        /\ state[r].current_iteration = 1
        /\ state[r].max_iterations = 2
        /\ Len(state[r].gathered_data) = 3
        /\ \A i \in 1..3 : ~state[r].gathered_data[i].result.success
        /\ \A i, j \in 1..3 :
               state[r].gathered_data[i].tool_name =
                   state[r].gathered_data[j].tool_name => i = j

\* C36: ResolutionResult.success is true exactly when the run reached the end
\* of verifying (status completed); the status "failed" is never assigned, and
\* a failed run is visible only through the result with success=false that the
\* handler of resolve_scenario builds.
C36_SuccessIffCompleted ==
    \A r \in Runs :
        /\ state[r].status # "failed"
        /\ result[r] # <<>> =>
               /\ pc[r] \in {"returned", "failed"}
               /\ result[r][1].success <=> state[r].status = "completed"
        /\ pc[r] = "returned" =>
               /\ result[r][1].success
               /\ last_node[r] = "verification"
        /\ pc[r] = "failed" =>
               /\ ~result[r][1].success
               /\ state[r].status = "processing"
        /\ state[r].status = "completed" => pc[r] \in Done

\* a run that failed in verifying: the result says so, the status is still
\* processing
C36_Witness ==
    \E r \in Runs :
        /\ pc[r] = "failed"
        /\ state[r].solution_plan # NoPlan
        /\ state[r].status = "processing"
        /\ ~result[r][1].success

\* the responses of a transcript that request tools: each of them began one
\* invoking_tools pass
RequestTurns(messages) ==
    {i \in 1..Len(messages) :
         messages[i].type = "ai" /\ messages[i].tool_calls # <<>>}

\* C37: the iteration counter counts bookkeeping passes, not tool calls. It
\* starts at 0, grows by exactly 1 in each post_tool_bookkeeping pass whatever
\* the number of calls of the pass, is changed by no other step, and in a
\* successful result metrics.iterations is the number of invoking_tools passes.
C37_IterationCountsPasses ==
    /\ [](\A r \in Runs :
             /\ (pc[r] = "call_model" /\ last_node[r] = "start") =>
                    state[r].current_iteration = 0
             /\ pc[r] \in InProgress \cup Done =>
                    state[r].current_iteration =
                        Cardinality(RequestTurns(state[r].messages))
                            - (IF pc[r] \in {"tools", "after_tools"} THEN 1 ELSE 0)
             /\ (pc[r] = "returned" /\ result[r][1].success) =>
                    result[r][1].metrics.iterations =
                        Cardinality(RequestTurns(state[r].messages)))
    /\ [][\A r \in Runs :
             /\ (pc[r] = "after_tools" /\ pc'[r] # "after_tools") =>
                    state[r].current_iteration' = state[r].current_iteration + 1
             /\ state[r].current_iteration' # state[r].current_iteration =>
                    \/ pc[r] = "after_tools"
                    \/ pc[r] = "idle" /\ state[r].current_iteration' = 0]_vars

\* a successful result after one pass of three calls: one iteration, three
\* tools called
C37_Witness ==
    \E r \in Runs :
        /\ pc[r] = "returned"
        /\ result[r][1].success
        /\ result[r][1].metrics.iterations = 1
        /\ result[r][1].metrics.tools_called = 3

-----------------------------------------------------------------------------
(* The forced tool calls of every scenario text *)

\* the words a scenario text may hold: trigger words of the three rules, two
\* capitalised spellings and a word that triggers nothing
ScenarioWords ==
    {"traffic", "Traffic", "road", "order", "kitchen", "customer", "Customer",
     "notify", "parcel"}

\* a constructed coordinator and a scenario text
InitForced ==
    /\ reasoner = NewReasoner(0)
    /\ owner = <<>>
    /\ now = 0
    /\ pc = [r \in Runs |-> "idle"]
    /\ state = [r \in Runs |-> IdleState]
    /\ result = [r \in Runs |-> <<>>]
    /\ last_node = [r \in Runs |-> "none"]
    /\ spy = NoSpy
    /\ registry = InitialRegistry
    /\ coordinator = <<NewCoordinator(InitialRegistry)>>
    /\ \E scenario \in SUBSET ScenarioWords :
           probe = [op |-> "scenario", scenario |-> scenario]

\* _create_forced_tool_calls on the scenario, and each forced call handed to
\* safe_execute of its tool
ForcedCallsProbe ==
    /\ probe.op = "scenario"
    /\ \E outcome \in ExecuteOutcomes :
       \E calls \in {create_forced_tool_calls(probe.scenario,
                                              DOMAIN coordinator[1].tools)} :
           probe' = [op |-> "create_forced_tool_calls",
                     scenario |-> probe.scenario,
                     calls |-> calls,
                     executed |-> [i \in 1..Len(calls) |->
                                      safe_execute(calls[i].name, calls[i].args,
                                                   outcome)]]
    /\ UNCHANGED <<ledgerVars, now, runVars, spy, registry, coordinator>>

NextForced == ForcedCallsProbe

SpecForced == InitForced /\ [][NextForced]_vars

\* C38: for every scenario text the forced calls are well-formed: at most 3,
\* each names a tool of the coordinator's tool set, the call ids are pairwise
\* distinct, and each argument map holds every required parameter of its
\* tool, so safe_execute rejects none of them in parameter validation.
C38_ForcedCallsWellFormed ==
    probe.op = "create_forced_tool_calls" =>
        LET calls == probe.calls IN
        /\ Len(calls) <= 3
        /\ \A i \in 1..Len(calls) :
               /\ calls[i].name \in DOMAIN coordinator[1].tools
               /\ \A k \in 1..Len(required_parameters(calls[i].name)) :
                      /\ required_parameters(calls[i].name)[k] \in DOMAIN calls[i].args
                      /\ calls[i].args[required_parameters(calls[i].name)[k]] # "null"
               /\ probe.executed[i].execute_calls = 1
               /\ probe.executed[i].result[1].message.text #
                      "Parameter validation failed: Missing required parameters"
        /\ \A i, j \in 1..Len(calls) : calls[i].id = calls[j].id => i = j

\* a scenario that triggers all three rules: five calls cut to three, the
\* second being calculate_alternative_route, all executed
C38_Witness ==
    /\ probe.op = "create_forced_tool_calls"
    /\ {"Traffic", "kitchen", "notify"} \subseteq probe.scenario
    /\ Len(probe.calls) = 3
    /\ probe.calls[2].name = "calculate_alternative_route"
    /\ probe.calls[3].name = "get_merchant_status"
    /\ \A i \in 1..3 : probe.executed[i].execute_calls = 1

-----------------------------------------------------------------------------
(* The routing after deciding *)

\* C39: the "retry" edge from deciding back to deciding is never taken: after
\* every deciding step the transcript holds at least one assistant turn, so
\* the routing that follows is use_tools or synthesize.
C39_RetryNeverTaken ==
    [][\A r \in Runs :
          (pc[r] = "call_model_await" /\ last_node'[r] = "call_model"
               /\ pc'[r] # "call_model_await") =>
              /\ LastAI(state'[r].messages) # <<>>
              /\ has_tool_calls(state'[r]) \in {"use_tools", "synthesize"}
              /\ pc'[r] \in {"tools", "synthesis"}]_vars

\* deciding has answered without any request on the first pass and no call
\* was forced: the reply is the only assistant turn, and the run synthesizes
C39_Witness ==
    \E r \in Runs :
        /\ last_node[r] = "call_model"
        /\ pc[r] = "synthesis"
        /\ state[r].current_iteration = 0
        /\ Len(state[r].messages) = 3
        /\ state[r].messages[3].type = "ai"
        /\ state[r].messages[3].tool_calls = <<>>

====
